---- MODULE Spec2Model ----
(***************************************************************************)
(* Model of the vscode-git-copilot-tools extension: the path resolver      *)
(* (types.ts), the folder-mapping panel (folderMappingPanel.ts), the       *)
(* GitHubService (githubService.ts: cache, listing requests, TLS override, *)
(* credentials and sign-in offers), the tree provider (treeProvider.ts)    *)
(* and downloadCopilotItem (extension.ts), parsePluginJson, the SearchBar   *)
(* (searchBar.ts) and the slash-command note (noteGenerator.ts).            *)
(*                                                                         *)
(* JavaScript strings whose content the code inspects (trim, ===,          *)
(* includes) are sequences of one-character strings.  Every component has  *)
(* its own group of variables and its own specification; a specification   *)
(* keeps the variables of the other components at their initial value.     *)
(***************************************************************************)
EXTENDS Integers, Sequences, FiniteSets, Bags, TLC

VARIABLES
    \* resolveContentPath applied to one input (SpecResolve)
    rcRepo, rcCategory, rcResult,
    \* the folder-mapping webview and the repository it configures (SpecPanel)
    inputs, disabled, panel, savedRepo, loadIdx, requested,
    \* process.env.NODE_TLS_REJECT_UNAUTHORIZED and the requests in flight (SpecTls)
    tlsEnv, tlsEnv0, allowInsecure, reqs, subListings,
    \* GitHubService.cache, Date.now(), the service call in progress and what
    \* a call returns in the step it returns (SpecCache)
    cache, clock, call, ret,
    \* the tree provider's repoItems and loading, and its running loads (SpecTree)
    repoItems, loading, tasks,
    \* the settings enableGithubAuth and enterpriseToken, the GitHub session
    \* of VS Code, the service call in progress with its credentials and
    \* messages, and what the last call returned (SpecAuth)
    enableGithubAuth, enterpriseToken, session, proactiveOffers, acall, aret,
    \* the run of downloadCopilotItem in progress (or the last one) and the
    \* files and folders of the workspace it looks at (SpecDownload)
    dl, localFiles,
    \* parsePluginJson applied to one fetched plugin.json (SpecManifest)
    mf,
    \* the contents requests built for one configured repository (SpecBranch)
    br,
    \* the SearchPanel's term, its change events and one list of items (SpecSearch)
    search,
    \* the slash-command note generated for one README (SpecNote)
    note,
    \* one recursive getDirectoryContents over a remote tree (SpecDir)
    gdc,
    \* the stored repository sources and the manage-sources menu (SpecSources)
    repoList,
    \* the last cache invalidation and the cache it was applied to (SpecClear)
    clr

resolveVars == <<rcRepo, rcCategory, rcResult>>
panelVars == <<inputs, disabled, panel, savedRepo, loadIdx, requested>>
tlsVars == <<tlsEnv, tlsEnv0, allowInsecure, reqs, subListings>>
cacheVars == <<cache, clock, call, ret>>
treeVars == <<repoItems, loading, tasks>>
authVars == <<enableGithubAuth, enterpriseToken, session, proactiveOffers, acall, aret>>
downloadVars == <<dl, localFiles>>
pureVars == <<mf, br, search, note, gdc, repoList, clr>>
serviceVars ==
    <<resolveVars, panelVars, tlsVars, cacheVars, treeVars, authVars, downloadVars>>
vars == <<serviceVars, pureVars>>

\* What the actions of one component leave unchanged.
notResolveVars == <<panelVars, tlsVars, cacheVars, treeVars, authVars, downloadVars, pureVars>>
notPanelVars == <<resolveVars, tlsVars, cacheVars, treeVars, authVars, downloadVars, pureVars>>
notTlsVars == <<resolveVars, panelVars, cacheVars, treeVars, authVars, downloadVars, pureVars>>
notCacheVars == <<resolveVars, panelVars, tlsVars, treeVars, authVars, downloadVars, pureVars>>
\* The tree provider's loads go through the service's cache.
notTreeVars == <<resolveVars, panelVars, tlsVars, clock, call, ret, authVars, downloadVars, pureVars>>
notAuthVars == <<resolveVars, panelVars, tlsVars, cacheVars, treeVars, downloadVars, pureVars>>
notDownloadVars == <<resolveVars, panelVars, tlsVars, cacheVars, treeVars, authVars, pureVars>>
notMfVars == <<serviceVars, br, search, note, gdc, repoList, clr>>
notBrVars == <<serviceVars, mf, search, note, gdc, repoList, clr>>
notSearchVars == <<serviceVars, mf, br, note, gdc, repoList, clr>>
notNoteVars == <<serviceVars, mf, br, search, gdc, repoList, clr>>
notDirVars == <<serviceVars, mf, br, search, note, repoList, clr>>
notSourcesVars == <<serviceVars, mf, br, search, note, gdc, clr>>
\* The invalidations act on the service's cache.
notClearVars ==
    <<resolveVars, panelVars, tlsVars, clock, call, ret, treeVars, authVars, downloadVars,
      mf, br, search, note, gdc, repoList>>

----------------------------------------------------------------------------
(* Strings *)

\* String.prototype.trim removes white space at both ends.
IsSpace(ch) == ch \in {" ", "\t"}

RECURSIVE TrimStart(_)
TrimStart(s) == IF s # <<>> /\ IsSpace(Head(s)) THEN TrimStart(Tail(s)) ELSE s

RECURSIVE TrimEnd(_)
TrimEnd(s) ==
    IF s # <<>> /\ IsSpace(s[Len(s)]) THEN TrimEnd(SubSeq(s, 1, Len(s) - 1)) ELSE s

Trim(s) == TrimEnd(TrimStart(s))

\* String.prototype.toLowerCase on the letters the model uses.
LowerChar(ch) ==
    CASE ch = "R" -> "r" [] ch = "O" -> "o" [] ch = "T" -> "t"
      [] ch = "N" -> "n" [] ch = "U" -> "u" [] ch = "L" -> "l"
      [] OTHER -> ch

ToLowerCase(s) == [i \in 1..Len(s) |-> LowerChar(s[i])]

\* String.prototype.includes
Includes(s, sub) ==
    \E i \in 1..(Len(s) - Len(sub) + 1) : SubSeq(s, i, i + Len(sub) - 1) = sub

\* All strings over an alphabet up to a length.
StringsUpTo(alphabet, n) == UNION {[1..k -> alphabet] : k \in 0..n}

----------------------------------------------------------------------------
(* types.ts *)

\* enum CopilotCategory
Categories == {"plugins", "instructions", "prompts", "agents", "skills"}

\* The string value of a CopilotCategory member.
CategoryName(c) ==
    CASE c = "plugins" -> <<"p", "l", "u", "g", "i", "n", "s">>
      [] c = "instructions" ->
            <<"i", "n", "s", "t", "r", "u", "c", "t", "i", "o", "n", "s">>
      [] c = "prompts" -> <<"p", "r", "o", "m", "p", "t", "s">>
      [] c = "agents" -> <<"a", "g", "e", "n", "t", "s">>
      [] c = "skills" -> <<"s", "k", "i", "l", "l", "s">>

\* JavaScript values of type string | null | undefined.
Null == [t |-> "null", s |-> <<>>]
Undefined == [t |-> "undefined", s |-> <<>>]
Str(s) == [t |-> "string", s |-> s]

RootText == <<"r", "o", "o", "t">>
NullText == <<"n", "u", "l", "l">>

\* A FolderMapping with no entry at all.
EmptyMapping == [c \in Categories |-> Undefined]

\* interface RepoSource.  hasMappings says whether folderMappings is present;
\* baseUrl is the empty string when absent.
RepoSource(owner, repo, baseUrl, hasMappings, folderMappings) ==
    [owner |-> owner, repo |-> repo, baseUrl |-> baseUrl,
     hasMappings |-> hasMappings, folderMappings |-> folderMappings]

\* resolveContentPath without the null branch.
resolveContentPath_NoNull(repo, category) ==
    LET mapping == repo.folderMappings[category] IN
    IF repo.hasMappings /\ mapping = Str(RootText) THEN Str(<<>>)
    ELSE IF repo.hasMappings /\ mapping.t = "string" /\ Trim(mapping.s) # <<>>
         THEN Str(Trim(mapping.s))
         ELSE Str(CategoryName(category))

\* resolveContentPath comparing the trimmed mapping with 'root' and
\* returning a custom path untrimmed.
resolveContentPath_TrimSwapped(repo, category) ==
    LET mapping == repo.folderMappings[category] IN
    IF repo.hasMappings /\ mapping = Null THEN Null
    ELSE IF repo.hasMappings /\ mapping.t = "string" /\ Trim(mapping.s) = RootText
         THEN Str(<<>>)
         ELSE IF repo.hasMappings /\ mapping.t = "string" /\ Trim(mapping.s) # <<>>
              THEN Str(mapping.s)
              ELSE Str(CategoryName(category))

\* resolveContentPath: Null when the category is excluded, the empty string
\* for 'root', the trimmed custom path, else the category name.
resolveContentPath(repo, category) ==
    IF repo.hasMappings
    THEN LET mapping == repo.folderMappings[category] IN
         IF mapping = Null THEN Null
         ELSE IF mapping = Str(RootText) THEN Str(<<>>)
         ELSE IF mapping.t = "string" /\ Trim(mapping.s) # <<>>
              THEN Str(Trim(mapping.s))
              ELSE Str(CategoryName(category))
    ELSE Str(CategoryName(category))

----------------------------------------------------------------------------
(* SpecResolve: resolveContentPath on every bounded input *)

MaxMapLen == 5
MapChars == {" ", "r", "o", "t"}
MapValues == {Null, Undefined} \cup {Str(s) : s \in StringsUpTo(MapChars, MaxMapLen)}
ResolveCategories == {"prompts", "skills"}

NoResult == [t |-> "none", s |-> <<>>]

ResolveInit ==
    /\ rcCategory \in ResolveCategories
    /\ \E has \in BOOLEAN, m \in MapValues :
          /\ ~has => m = Undefined
          /\ rcRepo = RepoSource(<<"o">>, <<"r">>, <<>>, has,
                                 [EmptyMapping EXCEPT ![rcCategory] = m])
    /\ rcResult = NoResult

ResolveOff ==
    /\ rcCategory = "prompts"
    /\ rcRepo = RepoSource(<<"o">>, <<"r">>, <<>>, FALSE, EmptyMapping)
    /\ rcResult = NoResult

Resolve ==
    /\ rcResult = NoResult
    /\ rcResult' = resolveContentPath(rcRepo, rcCategory)
    /\ UNCHANGED <<rcRepo, rcCategory>>
    /\ UNCHANGED notResolveVars

NextResolve == Resolve

\* t is s without the white space at its two ends.
IsTrimOf(t, s) ==
    \E i \in 0..Len(s), j \in 0..Len(s) :
        /\ i + Len(t) + j = Len(s)
        /\ t = SubSeq(s, i + 1, i + Len(t))
        /\ \A k \in 1..i : IsSpace(s[k])
        /\ \A k \in (Len(s) - j + 1)..Len(s) : IsSpace(s[k])
        /\ t # <<>> => ~IsSpace(t[1]) /\ ~IsSpace(t[Len(t)])

IsBlank(s) == \A k \in 1..Len(s) : IsSpace(s[k])

\* The mapping resolveContentPath was given for the category.
RcMapping ==
    IF rcRepo.hasMappings THEN rcRepo.folderMappings[rcCategory] ELSE Undefined

----------------------------------------------------------------------------
(* folderMappingPanel.ts, and the load that follows a saved mapping *)

\* const CATEGORIES, in the order the panel iterates
CATEGORIES == <<"agents", "instructions", "plugins", "prompts", "skills">>

\* The order in which loadAllReposAndCategories asks for the categories.
LoadOrder == <<"plugins", "instructions", "prompts", "agents", "skills">>

\* What the user may put into an input field.
PanelTexts ==
    {<<>>, RootText, <<"R", "o", "o", "t">>, NullText, <<"d", "o", "c", "s">>}

IsRootInput(v) == ToLowerCase(Trim(v)) = RootText

\* handleRootLogic: the first category whose input reads root, 0 if none
RootCategoryIndex(vals) ==
    IF \E i \in 1..Len(CATEGORIES) : IsRootInput(vals[CATEGORIES[i]])
    THEN CHOOSE i \in 1..Len(CATEGORIES) :
            /\ IsRootInput(vals[CATEGORIES[i]])
            /\ \A j \in 1..(i - 1) : ~IsRootInput(vals[CATEGORIES[j]])
    ELSE 0

\* handleRootLogic: the other rows are disabled while one input reads root
RootDisabled(vals) ==
    [c \in Categories |->
        RootCategoryIndex(vals) # 0 /\ c # CATEGORIES[RootCategoryIndex(vals)]]

\* handleRootLogic: a disabled input is emptied
RootValues(vals) ==
    [c \in Categories |-> IF RootDisabled(vals)[c] THEN <<>> ELSE vals[c]]

\* The save button's value for one input.
SaveValue(v) ==
    LET val == Trim(v) IN
    IF val = <<>> THEN Str(<<>>)
    ELSE IF ToLowerCase(val) = NullText THEN Str(NullText)
    ELSE IF ToLowerCase(val) = RootText THEN Str(RootText)
    ELSE Str(val)

\* onDidReceiveMessage 'save': the FolderMapping entry for one posted value;
\* a blank value leaves the entry undefined.
MessageMapping(value) ==
    IF value = Str(NullText) \/ value = Null THEN Null
    ELSE IF value = Str(RootText) THEN Str(RootText)
    ELSE IF value.t = "string" /\ Trim(value.s) # <<>> THEN Str(Trim(value.s))
    ELSE Undefined

PanelMapping(vals) == [c \in Categories |-> MessageMapping(SaveValue(vals[c]))]

\* manageSources: at least one mapping is set
HasMapping(mapping) ==
    \E c \in Categories :
        mapping[c] # Null /\ mapping[c] # Undefined /\ mapping[c] # Str(<<>>)

NoRepo == RepoSource(<<"o">>, <<"r">>, <<>>, FALSE, EmptyMapping)

PanelInit ==
    /\ inputs = [c \in Categories |-> <<>>]
    /\ disabled = [c \in Categories |-> FALSE]
    /\ panel = "open"
    /\ savedRepo = NoRepo
    /\ loadIdx = 0
    /\ requested = {}

\* An input event on an enabled field, followed by handleRootLogic.
InputEvent ==
    /\ panel = "open"
    /\ \E c \in Categories, text \in PanelTexts :
          /\ ~disabled[c]
          /\ LET vals == [inputs EXCEPT ![c] = text] IN
             /\ inputs' = RootValues(vals)
             /\ disabled' = RootDisabled(vals)
    /\ UNCHANGED <<panel, savedRepo, loadIdx, requested>>
    /\ UNCHANGED notPanelVars

\* Save Configuration with at least one mapping: the repository is stored
\* with the mapping and the tree is refreshed.
SaveMapping ==
    /\ panel = "open"
    /\ HasMapping(PanelMapping(inputs))
    /\ panel' = "saved"
    /\ savedRepo' = RepoSource(<<"o">>, <<"r">>, <<>>, TRUE, PanelMapping(inputs))
    /\ loadIdx' = 1
    /\ UNCHANGED <<inputs, disabled, requested>>
    /\ UNCHANGED notPanelVars

\* Save Configuration without any mapping: the repository is not added.
SaveNothing ==
    /\ panel = "open"
    /\ ~HasMapping(PanelMapping(inputs))
    /\ panel' = "rejected"
    /\ UNCHANGED <<inputs, disabled, savedRepo, loadIdx, requested>>
    /\ UNCHANGED notPanelVars

CancelPanel ==
    /\ panel = "open"
    /\ panel' = "cancelled"
    /\ UNCHANGED <<inputs, disabled, savedRepo, loadIdx, requested>>
    /\ UNCHANGED notPanelVars

\* One iteration of loadAllReposAndCategories(true) for the new repository:
\* getFilesByRepo sends a listing request unless the category is excluded.
LoadCategory ==
    /\ panel = "saved"
    /\ loadIdx \in 1..Len(LoadOrder)
    /\ LET category == LoadOrder[loadIdx] IN
       requested' = IF resolveContentPath(savedRepo, category) = Null
                    THEN requested
                    ELSE requested \cup {category}
    /\ loadIdx' = loadIdx + 1
    /\ UNCHANGED <<inputs, disabled, panel, savedRepo>>
    /\ UNCHANGED notPanelVars

NextPanel == InputEvent \/ SaveMapping \/ SaveNothing \/ CancelPanel \/ LoadCategory

\* C9: when the saved mapping has a category mapped to "root", no listing
\* request is issued for any other category of the repository.
C9_RootExcludesOthers ==
    \A c \in Categories :
        (panel = "saved" /\ savedRepo.folderMappings[c] = Str(RootText))
            => requested \subseteq {c}

----------------------------------------------------------------------------
(* githubService.ts and extension.ts: requests and the TLS override *)

GithubCom == <<"g", "i", "t", "h", "u", "b", ".", "c", "o", "m">>
PublicApiRepos ==
    <<"h", "t", "t", "p", "s", ":", "/", "/", "a", "p", "i", ".", "g", "i", "t",
      "h", "u", "b", ".", "c", "o", "m", "/", "r", "e", "p", "o", "s", "/">>
ApiV3Repos == <<"/", "a", "p", "i", "/", "v", "3", "/", "r", "e", "p", "o", "s", "/">>
ContentsSuffix == <<"/", "c", "o", "n", "t", "e", "n", "t", "s">>

\* The base URL of the GitHub Enterprise Server of the model.
EnterpriseBaseUrl ==
    <<"h", "t", "t", "p", "s", ":", "/", "/", "g", "h", "e", ".", "c", "o", "r", "p">>

\* The download_url GitHub gives for a file of the public repository o/r, and
\* the one the enterprise server gives.
PublicDownloadUrl ==
    <<"h", "t", "t", "p", "s", ":", "/", "/", "r", "a", "w", ".", "g", "i", "t",
      "h", "u", "b", "u", "s", "e", "r", "c", "o", "n", "t", "e", "n", "t", ".",
      "c", "o", "m", "/", "o", "/", "r", "/", "m", "a", "i", "n", "/", "f">>
EnterpriseDownloadUrl ==
    <<"h", "t", "t", "p", "s", ":", "/", "/", "g", "h", "e", ".", "c", "o", "r",
      "p", "/", "r", "a", "w", "/", "o", "/", "r", "/", "m", "a", "i", "n", "/", "f">>

PublicRepo == RepoSource(<<"o">>, <<"r">>, <<>>, FALSE, EmptyMapping)
EnterpriseRepo == RepoSource(<<"o">>, <<"r">>, EnterpriseBaseUrl, FALSE, EmptyMapping)
TlsRepos == {PublicRepo, EnterpriseRepo}

\* baseUrl.replace(/\/$/, '')
StripTrailingSlash(s) ==
    IF s # <<>> /\ s[Len(s)] = "/" THEN SubSeq(s, 1, Len(s) - 1) ELSE s

\* buildApiUrlForPath
buildApiUrlForPath(repo, path) ==
    LET contentsSuffix == IF path # <<>> THEN ContentsSuffix \o <<"/">> \o path
                          ELSE ContentsSuffix
    IN IF repo.baseUrl # <<>>
       THEN StripTrailingSlash(repo.baseUrl) \o ApiV3Repos \o repo.owner \o <<"/">>
                \o repo.repo \o contentsSuffix
       ELSE PublicApiRepos \o repo.owner \o <<"/">> \o repo.repo \o contentsSuffix

\* checkFolder's apiUrl (no branch given)
CheckFolderUrl(repo, cat) ==
    IF repo.baseUrl # <<>>
    THEN repo.baseUrl \o ApiV3Repos \o repo.owner \o <<"/">> \o repo.repo
            \o ContentsSuffix \o <<"/">> \o CategoryName(cat)
    ELSE PublicApiRepos \o repo.owner \o <<"/">> \o repo.repo
            \o ContentsSuffix \o <<"/">> \o CategoryName(cat)

\* createHttpsAgent (both copies): "insecure" is an agent with
\* rejectUnauthorized false, "secure" one with rejectUnauthorized true,
\* "default" is no agent of its own.
createHttpsAgent(url, allowInsecureEnterpriseCerts) ==
    LET isEnterprise == ~Includes(url, GithubCom) IN
    IF isEnterprise /\ allowInsecureEnterpriseCerts THEN "insecure"
    ELSE IF isEnterprise THEN "secure"
    ELSE "default"

\* The remote directory d has the subdirectories d/a and d/b.
DirPath == <<"d">>
SubDirs(path) ==
    IF path = DirPath THEN {<<"d", "/", "a">>, <<"d", "/", "b">>} ELSE {}

MaxReq == 2

\* One request in flight.  public says that the target belongs to a
\* repository without baseUrl; original is the value the request saved
\* before it set the variable to '0'.
Request(op, repo, path, relaxed, agent) ==
    [op |-> op, public |-> repo.baseUrl = <<>>, repo |-> repo, path |-> path,
     relaxed |-> relaxed, original |-> IF relaxed THEN tlsEnv ELSE "undefined",
     agent |-> agent]

InFlight == {r \in DOMAIN reqs : reqs[r] > 0}
NumInFlight == IF InFlight = {} THEN 0 ELSE BagCardinality(reqs)

\* const original = process.env.X; process.env.X = '0'; axios.get(...), or
\* axios.get(...) alone.
Send(r) ==
    /\ NumInFlight < MaxReq
    /\ reqs' = reqs (+) SetToBag({r})
    /\ tlsEnv' = IF r.relaxed THEN "0" ELSE tlsEnv

\* The repository-based fetch paths of GitHubService: isEnterprise is
\* !!repo.baseUrl, and the agent is made for an enterprise repository only.
ServiceRequest(op, repo, path) ==
    LET isEnterprise == repo.baseUrl # <<>>
        agent == IF isEnterprise
                 THEN createHttpsAgent(buildApiUrlForPath(repo, path), allowInsecure)
                 ELSE "default"
    IN Request(op, repo, path, isEnterprise /\ allowInsecure, agent)

TlsInit ==
    /\ tlsEnv0 \in {"undefined", "1"}
    /\ tlsEnv = tlsEnv0
    /\ allowInsecure \in BOOLEAN
    /\ reqs = EmptyBag
    /\ subListings = {}

TlsOff ==
    /\ tlsEnv0 = "undefined"
    /\ tlsEnv = "undefined"
    /\ allowInsecure = FALSE
    /\ reqs = EmptyBag
    /\ subListings = {}

\* getFiles: the listing request for one source
GetFilesRequest ==
    /\ \E repo \in TlsRepos, c \in {"prompts"} :
          Send(ServiceRequest("getFiles", repo, CategoryName(c)))
    /\ UNCHANGED <<tlsEnv0, allowInsecure, subListings>>
    /\ UNCHANGED notTlsVars

\* getFilesByRepo: the listing request
GetFilesByRepoRequest ==
    /\ \E repo \in TlsRepos, c \in {"prompts"} :
          Send(ServiceRequest("getFilesByRepo", repo, CategoryName(c)))
    /\ UNCHANGED <<tlsEnv0, allowInsecure, subListings>>
    /\ UNCHANGED notTlsVars

\* getFileContentByPath: the contents request for one file
GetFileContentByPathRequest ==
    /\ \E repo \in TlsRepos :
          Send(ServiceRequest("getFileContentByPath", repo, <<"f">>))
    /\ UNCHANGED <<tlsEnv0, allowInsecure, subListings>>
    /\ UNCHANGED notTlsVars

\* getFileContent: isEnterprise is !downloadUrl.includes('github.com')
GetFileContentRequest ==
    /\ \E repo \in TlsRepos :
          LET downloadUrl == IF repo.baseUrl = <<>> THEN PublicDownloadUrl
                             ELSE EnterpriseDownloadUrl
              isEnterprise == ~Includes(downloadUrl, GithubCom)
              agent == IF isEnterprise
                       THEN createHttpsAgent(downloadUrl, allowInsecure)
                       ELSE "default"
          IN Send(Request("getFileContent", repo, <<"f">>,
                          isEnterprise /\ allowInsecure, agent))
    /\ UNCHANGED <<tlsEnv0, allowInsecure, subListings>>
    /\ UNCHANGED notTlsVars

\* getDirectoryContents called by a download or a preview: its request
GetDirectoryContentsRequest ==
    /\ \E repo \in TlsRepos :
          Send(ServiceRequest("getDirectoryContents", repo, DirPath))
    /\ UNCHANGED <<tlsEnv0, allowInsecure, subListings>>
    /\ UNCHANGED notTlsVars

\* getDirectoryContents called for a subdirectory by the fan-out: its request
SubListingRequest ==
    /\ \E sub \in subListings :
          /\ Send(ServiceRequest("getDirectoryContents", sub.repo, sub.path))
          /\ subListings' = subListings \ {sub}
    /\ UNCHANGED <<tlsEnv0, allowInsecure>>
    /\ UNCHANGED notTlsVars

\* checkFolder of Add Repository: the relaxation follows baseUrl, the agent
\* is made from the URL and used for an enterprise repository only.
CheckFolderRequest ==
    /\ \E repo \in TlsRepos :
          LET agent == IF repo.baseUrl # <<>>
                       THEN createHttpsAgent(CheckFolderUrl(repo, "plugins"),
                                             allowInsecure)
                       ELSE "default"
          IN Send(Request("checkFolder", repo, CategoryName("plugins"),
                          repo.baseUrl # <<>> /\ allowInsecure, agent))
    /\ UNCHANGED <<tlsEnv0, allowInsecure, subListings>>
    /\ UNCHANGED notTlsVars

\* finally: delete process.env.X when the saved value was undefined, else
\* assign the saved value
Restored(r) == IF r.relaxed THEN r.original ELSE tlsEnv

\* A request returns or throws.  A directory listing that returned calls
\* getDirectoryContents for every subdirectory.
RequestCompletes ==
    /\ \E r \in InFlight, ok \in BOOLEAN :
          /\ reqs' = reqs (-) SetToBag({r})
          /\ tlsEnv' = Restored(r)
          /\ subListings' =
                IF ok /\ r.op = "getDirectoryContents"
                THEN subListings \cup
                        {[repo |-> r.repo, path |-> p] : p \in SubDirs(r.path)}
                ELSE subListings
    /\ UNCHANGED <<tlsEnv0, allowInsecure>>
    /\ UNCHANGED notTlsVars

NextTls ==
    \/ GetFilesRequest
    \/ GetFilesByRepoRequest
    \/ GetFileContentByPathRequest
    \/ GetFileContentRequest
    \/ GetDirectoryContentsRequest
    \/ SubListingRequest
    \/ CheckFolderRequest
    \/ RequestCompletes

\* C1: once every request that set NODE_TLS_REJECT_UNAUTHORIZED to '0' has
\* completed, the variable holds the value it had before the first of them.
C1_TlsFullyReverted ==
    (\A r \in InFlight : ~r.relaxed) => tlsEnv = tlsEnv0

\* C2: while a request has the variable set to '0', no other request is in
\* flight.
C2_TlsCriticalSection ==
    (\E r \in InFlight : r.relaxed) => NumInFlight = 1

\* C3: a request to a repository without baseUrl, or to a download URL of
\* such a repository, neither sets the variable to '0' nor uses an agent with
\* rejectUnauthorized false.
C3_PublicNeverRelaxed ==
    \A r \in InFlight : r.public => ~r.relaxed /\ r.agent # "insecure"

----------------------------------------------------------------------------
(* githubService.ts: the cache, getFilesByRepo and getFiles *)

\* private static readonly CACHE_DURATION = 60 * 60 * 1000
CACHE_DURATION == 60 * 60 * 1000

\* Date.now() advances by half the cache duration at a time.
TickStep == CACHE_DURATION \div 2
MaxTicks == 2

DocsText == <<"d", "o", "c", "s">>

CacheCategories == {"prompts"}

\* The repository o/a on github.com as a caller may pass it: without
\* folderMappings, with the category excluded, with a custom folder.
RepoArgsA ==
    {RepoSource(<<"o">>, <<"a">>, <<>>, FALSE, EmptyMapping)} \cup
    {RepoSource(<<"o">>, <<"a">>, <<>>, TRUE, [EmptyMapping EXCEPT ![c] = m]) :
        c \in CacheCategories, m \in {Null, Str(DocsText)}}

\* The repository o/b on github.com, without folderMappings.
RepoArgsB == {RepoSource(<<"o">>, <<"b">>, <<>>, FALSE, EmptyMapping)}

\* The repository o/c on github.com, which has none of the folders: it is
\* asked for by getFilesByRepo alone.
RepoArgsC == {RepoSource(<<"o">>, <<"c">>, <<>>, FALSE, EmptyMapping)}

RepoArgs == RepoArgsA \cup RepoArgsB \cup RepoArgsC

\* What RepoStorage.getSources may hold: repositories distinct by owner/repo.
SourceLists ==
    {<<a>> : a \in RepoArgsA} \cup {<<b>> : b \in RepoArgsB}
        \cup {<<a, b>> : a \in RepoArgsA, b \in RepoArgsB}

\* `${repo.baseUrl || 'github.com'}/${repo.owner}/${repo.repo}`
RepoKey(repo) ==
    (IF repo.baseUrl # <<>> THEN repo.baseUrl ELSE GithubCom)
        \o <<"/">> \o repo.owner \o <<"/">> \o repo.repo

\* `${repoKey}|${category}`
CacheKey(repo, category) == RepoKey(repo) \o <<"|">> \o CategoryName(category)

\* this.cache.get(cacheKey)
CacheGet(ch, key) == IF key \in DOMAIN ch THEN ch[key] ELSE Undefined

\* this.cache.set(cacheKey, entry)
CacheSet(ch, key, entry) ==
    [k \in DOMAIN ch \cup {key} |-> IF k = key THEN entry ELSE ch[k]]

\* (now - cacheEntry.timestamp) < GitHubService.CACHE_DURATION, with <= for <
IsFresh_Inclusive(entry, now) ==
    entry # Undefined /\ now - entry.timestamp <= CACHE_DURATION

\* cacheEntry && (now - cacheEntry.timestamp) < GitHubService.CACHE_DURATION
IsFresh(entry, now) ==
    entry # Undefined /\ now - entry.timestamp < CACHE_DURATION

\* What the contents API of github.com lists at a path of o/a and o/b;
\* a path that is not listed gives 404.
RemoteItems(repo, path) ==
    IF repo.repo = <<"a">> /\ path = CategoryName("prompts")
    THEN <<[name |-> <<"x">>, type |-> "file"], [name |-> <<"s">>, type |-> "dir"]>>
    ELSE IF repo.repo = <<"a">> /\ path = DocsText
    THEN <<[name |-> <<"y">>, type |-> "file"]>>
    ELSE IF repo.repo = <<"a">> /\ path = CategoryName("plugins")
    THEN <<[name |-> <<"p">>, type |-> "dir"]>>
    ELSE IF repo.repo = <<"b">> /\ path = CategoryName("prompts")
    THEN <<[name |-> <<"x">>, type |-> "file"]>>
    ELSE <<>>

RemoteExists(repo, path) == RemoteItems(repo, path) # <<>>

\* response.data.filter(...).map(f => ({ ...f, repo })): directories for
\* skills and plugins, files for the other categories.  dir is the folder
\* part of the file's path; displayName is absent.
ListedFiles(repo, category, path) ==
    LET wanted == IF category \in {"skills", "plugins"} THEN "dir" ELSE "file"
        items == SelectSeq(RemoteItems(repo, path), LAMBDA f : f.type = wanted)
    IN [i \in 1..Len(items) |->
          [name |-> items[i].name, type |-> items[i].type, dir |-> path,
           repo |-> repo, displayName |-> <<>>]]

\* getFiles, first pass: the names counted at least twice
DuplicateNames(allFiles) ==
    {allFiles[i].name : i \in {k \in 1..Len(allFiles) :
        \E j \in 1..(k - 1) : allFiles[j].name = allFiles[k].name}}

\* `${file.name} (${file.repo.owner}/${file.repo.repo})`
Labelled(file) ==
    file.name \o <<" ", "(">> \o file.repo.owner \o <<"/">> \o file.repo.repo
        \o <<")">>

\* getFiles, second pass without the else branch
DisplayName_NoReset(file, duplicateNames) ==
    IF file.name \in duplicateNames THEN Labelled(file)
    ELSE IF file.displayName # <<>> THEN file.displayName ELSE file.name

\* getFiles, second pass: the displayName assigned to one file
DisplayName(file, duplicateNames) ==
    IF file.name \in duplicateNames THEN Labelled(file) ELSE file.name

WithDisplayNames(files, duplicateNames) ==
    [i \in 1..Len(files) |->
        [files[i] EXCEPT !.displayName = DisplayName(files[i], duplicateNames)]]

NoCall ==
    [op |-> "none", srcs |-> <<>>, category |-> "prompts", force |-> FALSE,
     now |-> 0, idx |-> 0, retried |-> FALSE, allFiles |-> <<>>, log |-> <<>>,
     invalidated |-> {}]

NoRet ==
    [op |-> "none", srcs |-> <<>>, category |-> "prompts", force |-> FALSE,
     now |-> 0, status |-> "none", files |-> <<>>, log |-> <<>>, invalidated |-> {}]

\* What a call did for one source: the entry the cache held for the key when
\* the call looked at the source, the listing requests sent (the retry after
\* a sign-in apart), how it ended, and the entry the cache held afterwards.
LogEntry(seen, requests, outcome, after) ==
    [seen |-> seen, requests |-> requests, outcome |-> outcome, after |-> after]

Return(cl, status, files) ==
    [op |-> cl.op, srcs |-> cl.srcs, category |-> cl.category, force |-> cl.force,
     now |-> cl.now, status |-> status, files |-> files, log |-> cl.log,
     invalidated |-> cl.invalidated]

CacheInit ==
    /\ cache = <<>>
    /\ clock = 0
    /\ call = NoCall
    /\ ret = NoRet

\* getFilesByRepo up to its listing request: an excluded category returns
\* [], a fresh entry returns its data, else the request goes out.
GetFilesByRepoCall ==
    /\ call = NoCall
    /\ \E repo \in RepoArgs,
          category \in CacheCategories, forceRefresh \in BOOLEAN :
          LET contentPath == resolveContentPath(repo, category)
              cacheEntry == CacheGet(cache, CacheKey(repo, category))
              cl == [NoCall EXCEPT !.op = "getFilesByRepo", !.srcs = <<repo>>,
                                   !.category = category, !.force = forceRefresh,
                                   !.now = clock, !.idx = 1]
              done(outcome) ==
                  [cl EXCEPT !.log = <<LogEntry(cacheEntry, 0, outcome, cacheEntry)>>]
          IN IF contentPath = Null
             THEN /\ ret' = Return(done("excluded"), "ok", <<>>)
                  /\ call' = NoCall
             ELSE IF ~forceRefresh /\ IsFresh(cacheEntry, clock)
             THEN /\ ret' = Return(done("hit"), "ok", cacheEntry.data)
                  /\ call' = NoCall
             ELSE /\ ret' = NoRet
                  /\ call' = [cl EXCEPT !.log =
                                 <<LogEntry(cacheEntry, 1, "sent", cacheEntry)>>]
    /\ UNCHANGED <<cache, clock>>
    /\ UNCHANGED notCacheVars

\* getFiles: the loop over the sources from the current one up to the next
\* listing request, or to the end of the sources.
RECURSIVE GetFilesLoop(_, _)
GetFilesLoop(cl, ch) ==
    IF cl.idx > Len(cl.srcs) THEN cl
    ELSE LET repo == cl.srcs[cl.idx]
             cacheEntry == CacheGet(ch, CacheKey(repo, cl.category))
         IN IF ~cl.force /\ IsFresh(cacheEntry, cl.now)
            THEN GetFilesLoop(
                    [cl EXCEPT !.allFiles = @ \o cacheEntry.data, !.idx = @ + 1,
                               !.log = Append(@, LogEntry(cacheEntry, 0, "hit",
                                                          cacheEntry))], ch)
            ELSE IF resolveContentPath(repo, cl.category) = Null
            THEN GetFilesLoop(
                    [cl EXCEPT !.idx = @ + 1,
                               !.log = Append(@, LogEntry(cacheEntry, 0, "excluded",
                                                          cacheEntry))], ch)
            ELSE [cl EXCEPT !.retried = FALSE,
                            !.log = Append(@, LogEntry(cacheEntry, 1, "sent",
                                                       cacheEntry))]

\* getFiles after its loop: displayName is assigned to every file of
\* allFiles; the files are the objects the cache entries hold.
GetFilesReturn(cl) ==
    Return(cl, "ok", WithDisplayNames(cl.allFiles, DuplicateNames(cl.allFiles)))

CacheAfterGetFiles(cl, ch) ==
    [k \in DOMAIN ch |->
        IF \E i \in 1..Len(cl.srcs) :
              /\ k = CacheKey(cl.srcs[i], cl.category)
              /\ cl.log[i].outcome \in {"hit", "ok"}
        THEN [ch[k] EXCEPT !.data =
                 WithDisplayNames(@, DuplicateNames(cl.allFiles))]
        ELSE ch[k]]

\* getFiles continues from cl with the cache ch until it awaits a listing
\* request or returns.
GetFilesContinue(cl, ch) ==
    LET next == GetFilesLoop(cl, ch) IN
    IF next.idx > Len(next.srcs)
    THEN /\ call' = NoCall
         /\ ret' = GetFilesReturn(next)
         /\ cache' = CacheAfterGetFiles(next, ch)
    ELSE /\ call' = next
         /\ ret' = NoRet
         /\ cache' = ch

\* getFiles up to its first listing request, or to its return when no
\* source needs a request.
GetFilesCall ==
    /\ call = NoCall
    /\ \E sources \in SourceLists, category \in CacheCategories,
          forceRefresh \in BOOLEAN :
          GetFilesContinue(
              [NoCall EXCEPT !.op = "getFiles", !.srcs = sources,
                             !.category = category, !.force = forceRefresh,
                             !.now = clock, !.idx = 1], cache)
    /\ UNCHANGED clock
    /\ UNCHANGED notCacheVars

\* The answers to a listing request: the listing, 404, another error, or a
\* 401/403 after which the user signs in and the request is sent once more.
Outcomes(cl) ==
    LET repo == cl.srcs[cl.idx]
        path == resolveContentPath(repo, cl.category).s
    IN (IF RemoteExists(repo, path) THEN {"ok"} ELSE {"notFound"})
          \cup {"error"} \cup (IF cl.retried THEN {} ELSE {"authRetry"})

WritesCache_Always(outcome) == TRUE

\* this.cache.set follows the await of the request inside the try block: it
\* is reached only when the request (or its retry) has returned a listing.
WritesCache(outcome) == outcome = "ok"

\* The listing request of the call in progress is answered, and the call
\* runs on to its next request or to its return.
ListingResponds ==
    /\ call # NoCall
    /\ \E outcome \in Outcomes(call) :
          LET repo == call.srcs[call.idx]
              key == CacheKey(repo, call.category)
              files == ListedFiles(repo, call.category,
                                   resolveContentPath(repo, call.category).s)
              entry == [data |-> files, timestamp |-> call.now,
                        category |-> call.category, repo |-> repo]
              stored == IF WritesCache(outcome) THEN CacheSet(cache, key, entry)
                        ELSE cache
              cl == [call EXCEPT
                        !.log[call.idx].outcome = outcome,
                        !.log[call.idx].after = CacheGet(stored, key),
                        !.allFiles = IF outcome = "ok" THEN @ \o files ELSE @]
          IN IF outcome = "authRetry"
             THEN /\ call' = [call EXCEPT !.retried = TRUE,
                                          !.invalidated = @ \ {call.idx}]
                  /\ UNCHANGED <<cache, ret>>
             ELSE IF call.op = "getFilesByRepo"
             THEN /\ call' = NoCall
                  /\ cache' = stored
                  /\ ret' = IF outcome = "ok" THEN Return(cl, "ok", files)
                            ELSE IF outcome = "notFound" THEN Return(cl, "ok", <<>>)
                            ELSE Return(cl, "error", <<>>)
             ELSE GetFilesContinue([cl EXCEPT !.idx = @ + 1], stored)
    /\ UNCHANGED clock
    /\ UNCHANGED notCacheVars

\* Time passes.
Tick ==
    /\ clock < MaxTicks * TickStep
    /\ clock' = clock + TickStep
    /\ ret' = NoRet
    /\ UNCHANGED <<cache, call>>
    /\ UNCHANGED notCacheVars

\* this.cache.clear()
clearCache(ch) == <<>>

\* cacheKey.startsWith(prefix)
StartsWith(k, prefix) == Len(k) >= Len(prefix) /\ SubSeq(k, 1, Len(prefix)) = prefix

clearRepoCache_AnyHost(ch, repo) ==
    LET part == <<"/">> \o repo.owner \o <<"/">> \o repo.repo \o <<"|">>
        keep == {k \in DOMAIN ch :
                    \A i \in 1..(Len(k) - Len(part) + 1) :
                        SubSeq(k, i, i + Len(part) - 1) # part}
    IN [k \in keep |-> ch[k]]

\* clearRepoCache: every key that starts with the repoKey and "|" is deleted
clearRepoCache(ch, repo) ==
    LET prefix == RepoKey(repo) \o <<"|">>
        keep == {k \in DOMAIN ch : ~StartsWith(k, prefix)}
    IN [k \in keep |-> ch[k]]

\* clearCategoryCache: if (this.cache.has(cacheKey)) this.cache.delete(cacheKey)
clearCategoryCache(ch, repo, category) ==
    [k \in DOMAIN ch \ {CacheKey(repo, category)} |-> ch[k]]

\* invalidated records, for the call in progress, the sources whose listing
\* request was out when an invalidation removed the entry of their key.
Invalidate(cl, ch, cleared) ==
    IF cl # NoCall /\ CacheKey(cl.srcs[cl.idx], cl.category) \in DOMAIN ch \ DOMAIN cleared
    THEN [cl EXCEPT !.invalidated = @ \cup {cl.idx}]
    ELSE cl

\* clearCache
ClearCache ==
    /\ cache # <<>>
    /\ cache' = clearCache(cache)
    /\ call' = Invalidate(call, cache, clearCache(cache))
    /\ ret' = NoRet
    /\ UNCHANGED clock
    /\ UNCHANGED notCacheVars

\* clearRepoCache
ClearRepoCache ==
    /\ \E repo \in RepoArgs :
          /\ clearRepoCache(cache, repo) # cache
          /\ cache' = clearRepoCache(cache, repo)
          /\ call' = Invalidate(call, cache, clearRepoCache(cache, repo))
    /\ ret' = NoRet
    /\ UNCHANGED clock
    /\ UNCHANGED notCacheVars

\* clearCategoryCache
ClearCategoryCache ==
    /\ \E repo \in RepoArgs, category \in CacheCategories :
          /\ clearCategoryCache(cache, repo, category) # cache
          /\ cache' = clearCategoryCache(cache, repo, category)
          /\ call' = Invalidate(call, cache, clearCategoryCache(cache, repo, category))
    /\ ret' = NoRet
    /\ UNCHANGED clock
    /\ UNCHANGED notCacheVars

NextCache ==
    \/ GetFilesByRepoCall
    \/ GetFilesCall
    \/ ListingResponds
    \/ Tick
    \/ ClearCache
    \/ ClearRepoCache
    \/ ClearCategoryCache

\* The sources of the call that returns, by position.
RetSources == 1..Len(ret.log)

\* The category is excluded for the repository as the caller passed it.
MappedToNull(repo, category) ==
    repo.hasMappings /\ repo.folderMappings[category] = Null

\* When the call looked at source i, the cache held for its key an entry
\* younger than CACHE_DURATION.
RetFresh(i) ==
    /\ ret.log[i].seen # Undefined
    /\ ret.now - ret.log[i].seen.timestamp < CACHE_DURATION

\* The returned files that belong to source i.
RetFilesOf(i) ==
    SelectSeq(ret.files, LAMBDA f : RepoKey(f.repo) = RepoKey(ret.srcs[i]))

\* The same files, displayName apart.
SameFiles(fs, gs) ==
    /\ Len(fs) = Len(gs)
    /\ \A j \in 1..Len(fs) :
          [fs[j] EXCEPT !.displayName = <<>>] = [gs[j] EXCEPT !.displayName = <<>>]

\* Source i was served from the cache, without a request.
ServedFromCache(i) ==
    /\ ret.log[i].requests = 0
    /\ ret.status = "ok"
    /\ SameFiles(RetFilesOf(i), ret.log[i].seen.data)

\* One listing request was sent for source i, and a listing that arrived
\* replaced the entry.
FetchedOnce(i) ==
    /\ ret.log[i].requests = 1
    /\ ret.log[i].outcome = "ok" =>
          /\ ret.log[i].after # Undefined
          /\ ret.log[i].after # ret.log[i].seen
          /\ ret.log[i].after.timestamp = ret.now
          /\ SameFiles(ret.log[i].after.data, RetFilesOf(i))
          /\ \A j \in 1..Len(ret.log[i].after.data) :
                ret.log[i].after.data[j].repo = ret.srcs[i]

\* C5 as stated: for every key, a call without forceRefresh whose entry is
\* younger than the TTL returns the stored data without a request, and a call
\* whose entry is absent or expired sends exactly one listing request and on
\* success replaces the entry.
C5_HitAndMiss ==
    \A i \in RetSources :
        /\ (~ret.force /\ RetFresh(i)) => ServedFromCache(i)
        /\ ~RetFresh(i) => FetchedOnce(i)

\* C5: for every key whose category is not excluded by folderMappings, a
\* call without forceRefresh whose entry is younger than the TTL returns the
\* stored data without a request, and a call whose entry is absent or expired
\* sends exactly one listing request and on success replaces the entry.
C5_HitAndMissNotExcluded ==
    \A i \in RetSources :
        resolveContentPath(ret.srcs[i], ret.category) # Null =>
            /\ (~ret.force /\ RetFresh(i)) => ServedFromCache(i)
            /\ ~RetFresh(i) => FetchedOnce(i)

\* An entry exactly CACHE_DURATION old was found expired, fetched again and
\* replaced.
C5_Witness ==
    \E i \in RetSources :
        /\ ~ret.force
        /\ resolveContentPath(ret.srcs[i], ret.category) # Null
        /\ ret.log[i].seen # Undefined
        /\ ret.now - ret.log[i].seen.timestamp = CACHE_DURATION
        /\ ret.log[i].outcome = "ok"
        /\ ret.log[i].after.timestamp = ret.now

\* Values the setting cacheTimeout can hold (60000 to 86400000): its default
\* and half of it.  No code of the service reads the setting, so its value
\* is no part of the state and the claim is stated for each value.
CacheTimeouts == {CACHE_DURATION, TickStep}

\* When the call looked at source i, the cache held for its key an entry
\* younger than ttl.
RetFreshFor(i, ttl) ==
    /\ ret.log[i].seen # Undefined
    /\ ret.now - ret.log[i].seen.timestamp < ttl

\* C25: whatever the setting cacheTimeout holds, a call without forceRefresh
\* for a category that is not excluded serves a source from the cache
\* exactly when its entry is younger than the setting's value.
C25_TtlFromSetting ==
    \A ttl \in CacheTimeouts :
        \A i \in RetSources :
            ~ret.force /\ resolveContentPath(ret.srcs[i], ret.category) # Null =>
                (ServedFromCache(i) <=> RetFreshFor(i, ttl))

\* The steps of one getFilesByRepo call: its start (which may be its return),
\* the sign-in after a 401/403 with the request sent again, and its return
\* after the answer.
ByRepoStarts ==
    call = NoCall /\ (call'.op = "getFilesByRepo" \/ ret'.op = "getFilesByRepo")
ByRepoRetries ==
    call.op = "getFilesByRepo" /\ call'.op = "getFilesByRepo"
        /\ ~call.retried /\ call'.retried
ByRepoEnds == call.op = "getFilesByRepo" /\ ret'.op = "getFilesByRepo"

\* C36: a step of a getFilesByRepo call changes the cache only when the call
\* returns a listing it fetched; then the cache differs from the one before
\* the step in the entry of the call's own key alone, and that entry holds
\* the returned files and the time at which the call started.  A call that
\* ends in a failure or a 404, or whose category is excluded, and every
\* earlier step of a call leave the cache as it is.
C36_OnlySuccessWrites ==
    [][/\ ByRepoStarts =>
            /\ cache' = cache
            /\ call' # NoCall => call'.now = clock
            /\ call' = NoCall => ret'.now = clock
       /\ ByRepoRetries => cache' = cache /\ call'.now = call.now
       /\ ByRepoEnds =>
            /\ ret'.now = call.now
            /\ IF ret'.log[1].outcome = "ok"
               THEN LET key == RepoKey(ret'.srcs[1]) \o <<"|">> \o CategoryName(ret'.category)
                    IN /\ DOMAIN cache' = DOMAIN cache \cup {key}
                       /\ \A k \in DOMAIN cache : k # key => cache'[k] = cache[k]
                       /\ cache'[key].timestamp = ret'.now
                       /\ cache'[key].data = ret'.files
                       /\ cache'[key].repo = ret'.srcs[1]
                       /\ cache'[key].category = ret'.category
               ELSE cache' = cache]_vars

\* A getFilesByRepo call has returned a listing that arrived after the clock
\* had moved on, and the entry carries the time of the call's start.
C36_Witness ==
    /\ ret.op = "getFilesByRepo"
    /\ ret.log[1].outcome = "ok"
    /\ clock > ret.now
    /\ Cardinality(DOMAIN cache) = 2
    /\ cache[CacheKey(ret.srcs[1], ret.category)].timestamp = ret.now

\* C35: when an invalidation has removed the entry of a key while a listing
\* request for that key was out, the answer to that request is not stored:
\* after the call has returned, the cache holds no entry for the key.
C35_NoStaleWrite ==
    \A i \in RetSources :
        i \in ret.invalidated => ret.log[i].after = Undefined

\* C6: getFiles and getFilesByRepo return for a repository only files that
\* were listed at the folder its current mapping resolves to, and none when
\* the category is mapped to null.
C6_MappingChangeInvalidates ==
    ret.status = "ok" =>
        \A j \in 1..Len(ret.files) :
            \E i \in RetSources :
                /\ RepoKey(ret.srcs[i]) = RepoKey(ret.files[j].repo)
                /\ resolveContentPath(ret.srcs[i], ret.category) = Str(ret.files[j].dir)

\* C7: for a repository with folderMappings[c] = null, resolveContentPath is
\* null, getFilesByRepo returns an empty list without error, and neither
\* getFiles nor getFilesByRepo has a listing request out for (repo, c).
C7_NullExcluded ==
    /\ call # NoCall => ~MappedToNull(call.srcs[call.idx], call.category)
    /\ \A i \in RetSources :
          MappedToNull(ret.srcs[i], ret.category) =>
              /\ resolveContentPath(ret.srcs[i], ret.category) = Null
              /\ ret.log[i].requests = 0
              /\ ret.op = "getFilesByRepo" => ret.status = "ok" /\ ret.files = <<>>

\* getFilesByRepo returned the empty list for an excluded category although
\* the cache held a fresh entry with files for the key.
C7_Witness ==
    /\ ret.op = "getFilesByRepo"
    /\ MappedToNull(ret.srcs[1], ret.category)
    /\ ret.files = <<>>
    /\ RetFresh(1)
    /\ ret.log[1].seen.data # <<>>

\* C10: every file getFiles returns has displayName "{name} ({owner}/{repo})"
\* when a file of the same name from another repository is in the result,
\* and displayName = name otherwise.
C10_DisplayNames ==
    ret.op = "getFiles" =>
        \A j \in 1..Len(ret.files) :
            LET file == ret.files[j]
                shared == \E k \in 1..Len(ret.files) :
                             /\ ret.files[k].name = file.name
                             /\ <<ret.files[k].repo.owner, ret.files[k].repo.repo>>
                                   # <<file.repo.owner, file.repo.repo>>
            IN file.displayName =
                  IF shared
                  THEN file.name \o <<" ", "(">> \o file.repo.owner \o <<"/">>
                          \o file.repo.repo \o <<")">>
                  ELSE file.name

\* getFiles took from the cache a file that carried a displayName with the
\* repository from an earlier call, and returned it with displayName = name
\* because the other repository is no longer among the sources.
C10_Witness ==
    /\ ret.op = "getFiles"
    /\ \E i \in RetSources, j \in 1..Len(ret.files) :
          /\ ret.log[i].outcome = "hit"
          /\ ret.files[j].displayName = ret.files[j].name
          /\ \E k \in 1..Len(ret.log[i].seen.data) :
                /\ ret.log[i].seen.data[k].name = ret.files[j].name
                /\ ret.log[i].seen.data[k].repo = ret.files[j].repo
                /\ ret.log[i].seen.data[k].displayName = Labelled(ret.files[j])

----------------------------------------------------------------------------
(* treeProvider.ts: repoItems, loading and the loads *)

MaxTasks == 2
MaxTreeCategories == 2

\* const categories of loadSingleRepo and loadAllReposAndCategories, cut to
\* its first MaxTreeCategories members.
TreeCategories == SubSeq(LoadOrder, 1, MaxTreeCategories)

\* The sources of the tree, as the repositories setting may list them: o/a
\* on github.com and o/a on an enterprise host, without folderMappings.
TreeRepo == RepoSource(<<"o">>, <<"a">>, <<>>, FALSE, EmptyMapping)
TreeEnterpriseRepo == RepoSource(<<"o">>, <<"a">>, <<"h">>, FALSE, EmptyMapping)
\* RepoStorage.getSources(this.context)
TreeSources == <<TreeRepo, TreeEnterpriseRepo>>
TreeRepos == {TreeSources[i] : i \in 1..Len(TreeSources)}
SourceIndex(repo) == CHOOSE i \in 1..Len(TreeSources) : TreeSources[i] = repo

\* `${repo.owner}/${repo.repo}`
TreeRepoKey(repo) == repo.owner \o <<"/">> \o repo.repo

\* `${repoKey}-${category}`
LoadingKey(repo, category) == TreeRepoKey(repo) \o <<"-">> \o CategoryName(category)

\* getFilesByRepo does not return before it has sent a listing request.
NeedsRequest(repo, category, forceRefresh) ==
    /\ resolveContentPath(repo, category) # Null
    /\ ~(~forceRefresh /\ IsFresh(CacheGet(cache, CacheKey(repo, category)), clock))

\* What getFilesByRepo returns when it sends no request.
FilesWithoutRequest(repo, category) ==
    IF resolveContentPath(repo, category) = Null THEN <<>>
    ELSE CacheGet(cache, CacheKey(repo, category)).data

\* A load in progress.  idx is the position of its category in the
\* categories; attached says that its repoData is still the map repoItems
\* holds for the repository.
Task(kind, repo, idx, attached, awaiting) ==
    [kind |-> kind, repo |-> repo, idx |-> idx, attached |-> attached,
     awaiting |-> awaiting]

IdleTask == Task("idle", TreeRepo, 0, FALSE, FALSE)

\* if (!this.repoItems.has(repoKey)) this.repoItems.set(repoKey, new Map())
WithRepoData(items, repo) ==
    IF TreeRepoKey(repo) \in DOMAIN items THEN items
    ELSE [k \in DOMAIN items \cup {TreeRepoKey(repo)} |->
             IF k = TreeRepoKey(repo) THEN <<>> ELSE items[k]]

\* repoData.set(category, items) by a load
SetItems(items, task, category, files) ==
    LET repoKey == TreeRepoKey(task.repo) IN
    IF task.attached /\ repoKey \in DOMAIN items
    THEN [items EXCEPT ![repoKey] =
             [c \in DOMAIN @ \cup {category} |-> IF c = category THEN files ELSE @[c]]]
    ELSE items

\* loadAllReposAndCategories and loadSingleRepo: the loop over the categories
\* from the load's position up to its next listing request or to its end.
\* st holds the load, repoItems and loading.
RECURSIVE RunLoad(_)
RunLoad(st) ==
    IF st.task.idx > Len(TreeCategories)
    THEN IF st.task.kind = "loadAll" /\ SourceIndex(st.task.repo) < Len(TreeSources)
         THEN LET repo == TreeSources[SourceIndex(st.task.repo) + 1]
              IN RunLoad([st EXCEPT !.task = Task("loadAll", repo, 1, TRUE, FALSE),
                                    !.items = WithRepoData(@, repo)])
         ELSE [st EXCEPT !.task = IdleTask]
    ELSE LET category == TreeCategories[st.task.idx]
             loadingKey == LoadingKey(st.task.repo, category)
         IN IF st.task.kind = "loadSingleRepo" /\ loadingKey \in st.loading
            THEN RunLoad([st EXCEPT !.task.idx = @ + 1])
            ELSE IF NeedsRequest(st.task.repo, category, TRUE)
            THEN [st EXCEPT !.task.awaiting = TRUE,
                            !.loading = IF st.task.kind = "loadSingleRepo"
                                        THEN @ \cup {loadingKey} ELSE @]
            ELSE RunLoad([st EXCEPT
                    !.items = SetItems(@, st.task, category,
                                       FilesWithoutRequest(st.task.repo, category)),
                    !.task.idx = @ + 1])

FreeSlots == {s \in 1..MaxTasks : tasks[s] = IdleTask}

Detached(ts, repoKeys) ==
    [s \in 1..MaxTasks |->
        IF TreeRepoKey(ts[s].repo) \in repoKeys
        THEN [ts[s] EXCEPT !.attached = FALSE] ELSE ts[s]]

TreeInit ==
    /\ repoItems = <<>>
    /\ loading = {}
    /\ tasks = [s \in 1..MaxTasks |-> IdleTask]

\* getChildren of a category node: getItemsForRepoAndCategory up to its
\* listing request, or to its return.
ExpandCategory ==
    /\ \E slot \in FreeSlots, idx \in 1..Len(TreeCategories), repo \in TreeRepos :
          LET category == TreeCategories[idx]
              loadingKey == LoadingKey(repo, category)
              items == WithRepoData(repoItems, repo)
              task == Task("getItems", repo, idx, TRUE, TRUE)
          IN IF category \notin DOMAIN items[TreeRepoKey(repo)]
                    /\ loadingKey \notin loading
             THEN IF NeedsRequest(repo, category, FALSE)
                  THEN /\ loading' = loading \cup {loadingKey}
                       /\ tasks' = [tasks EXCEPT ![slot] = task]
                       /\ repoItems' = items
                  ELSE /\ repoItems' = SetItems(items, task, category,
                                                FilesWithoutRequest(repo, category))
                       /\ UNCHANGED <<loading, tasks>>
             ELSE /\ repoItems' = items
                  /\ UNCHANGED <<loading, tasks>>
    /\ UNCHANGED cache
    /\ UNCHANGED notTreeVars

\* refresh(): both maps are cleared and loadAllReposAndCategories(true) runs
\* up to its first listing request.
Refresh ==
    /\ \E slot \in FreeSlots :
          LET st == RunLoad([task |-> Task("loadAll", TreeSources[1], 1, TRUE, FALSE),
                             items |-> WithRepoData(<<>>, TreeSources[1]),
                             loading |-> {}])
          IN /\ repoItems' = st.items
             /\ loading' = st.loading
             /\ tasks' = [Detached(tasks, DOMAIN repoItems) EXCEPT ![slot] = st.task]
    /\ UNCHANGED cache
    /\ UNCHANGED notTreeVars

\* refreshRepo(repo): the repository's map and loading keys are removed and
\* loadSingleRepo(repo, true) runs up to its first listing request.
RefreshRepo ==
    /\ \E slot \in FreeSlots, repo \in TreeRepos :
          LET prefix == TreeRepoKey(repo) \o <<"-">>
              kept == {k \in loading : SubSeq(k, 1, Len(prefix)) # prefix}
              others == [k \in DOMAIN repoItems \ {TreeRepoKey(repo)} |-> repoItems[k]]
              st == RunLoad([task |-> Task("loadSingleRepo", repo, 1, TRUE, FALSE),
                             items |-> WithRepoData(others, repo),
                             loading |-> kept])
          IN /\ repoItems' = st.items
             /\ loading' = st.loading
             /\ tasks' = [Detached(tasks, {TreeRepoKey(repo)}) EXCEPT ![slot] = st.task]
    /\ UNCHANGED cache
    /\ UNCHANGED notTreeVars

\* The listing request of a load is answered: getFilesByRepo stores and
\* returns the listing, returns [] for 404 or throws; the load stores what it
\* got, gives up its loading key and goes on.
LoadResponds ==
    /\ \E slot \in 1..MaxTasks :
          /\ tasks[slot].awaiting
          /\ LET task == tasks[slot]
                 category == TreeCategories[task.idx]
                 path == resolveContentPath(task.repo, category).s
                 files == ListedFiles(task.repo, category, path)
                 entry == [data |-> files, timestamp |-> clock,
                           category |-> category, repo |-> task.repo]
                 released == IF task.kind = "loadAll" THEN loading
                             ELSE loading \ {LoadingKey(task.repo, category)}
             IN \E outcome \in (IF RemoteExists(task.repo, path) THEN {"ok"}
                                ELSE {"notFound"}) \cup {"error"} :
                   LET items == IF outcome = "error" THEN repoItems
                                ELSE SetItems(repoItems, task, category,
                                              IF outcome = "ok" THEN files ELSE <<>>)
                       st == IF task.kind = "getItems"
                             THEN [task |-> IdleTask, items |-> items,
                                   loading |-> released]
                             ELSE RunLoad([task |-> [task EXCEPT !.idx = @ + 1,
                                                                 !.awaiting = FALSE],
                                           items |-> items, loading |-> released])
                   IN /\ cache' = IF outcome = "ok"
                                  THEN CacheSet(cache, CacheKey(task.repo, category), entry)
                                  ELSE cache
                      /\ repoItems' = st.items
                      /\ loading' = st.loading
                      /\ tasks' = [tasks EXCEPT ![slot] = st.task]
    /\ UNCHANGED notTreeVars

NextTree ==
    \/ ExpandCategory
    \/ Refresh
    \/ RefreshRepo
    \/ LoadResponds

\* C4: no two loads have a listing request out for the same (repository,
\* category) key.
C4_OneRequestPerKey ==
    \A s1 \in 1..MaxTasks, s2 \in 1..MaxTasks :
        (s1 # s2 /\ tasks[s1].awaiting /\ tasks[s2].awaiting) =>
            CacheKey(tasks[s1].repo, TreeCategories[tasks[s1].idx])
                # CacheKey(tasks[s2].repo, TreeCategories[tasks[s2].idx])

\* The loads that add a loading key for the listing they wait for.
HoldsLoadingKey(task) ==
    task.awaiting /\ task.kind \in {"getItems", "loadSingleRepo"}

\* C39: the loading set holds the key of every fetch in progress of
\* getItemsForRepoAndCategory and loadSingleRepo (no key is removed while its
\* fetch is in flight), and it is empty once no fetch is in progress.
C39_LoadingHoldsFetches ==
    /\ \A s \in 1..MaxTasks :
           HoldsLoadingKey(tasks[s]) =>
               LoadingKey(tasks[s].repo, TreeCategories[tasks[s].idx]) \in loading
    /\ (\A s \in 1..MaxTasks : ~tasks[s].awaiting) => loading = {}

----------------------------------------------------------------------------
(* githubService.ts: credentials, sign-in offers and failed requests *)

MaxOffers == 2

\* An HTTP response as the service looks at it: the status, whether the
\* header x-ratelimit-remaining is '0', whether the header x-ratelimit-reset
\* is there, and the kind of body.
Response(status, remaining0, reset, data) ==
    [status |-> status, remaining0 |-> remaining0, reset |-> reset, data |-> data]
NoResponse == Response(0, FALSE, FALSE, "none")

\* A request that ends without a response (the timeout of 10 s, a refused
\* connection): the error has no response, its status is undefined.
NetworkError == Response(0, FALSE, FALSE, "networkError")

\* Responses to a listing request, to a Contents API request for one file and
\* to the download of a download_url.
ListingResponses ==
    {Response(200, FALSE, FALSE, "array"), Response(404, FALSE, FALSE, "none"),
     Response(500, FALSE, FALSE, "none"), Response(401, FALSE, FALSE, "none"),
     Response(403, FALSE, FALSE, "none"), Response(403, TRUE, TRUE, "none"),
     Response(403, TRUE, FALSE, "none"), NetworkError}
\* The data of a Contents API response: a file with content ("content"), a
\* file over 1 MB with content null and a download_url ("download_url"), an
\* empty file with content "" and a download_url ("emptyFile"), a file with
\* neither ("bare"), and a directory ("dir").
ContentsResponses ==
    {Response(200, FALSE, FALSE, "content"), Response(200, FALSE, FALSE, "download_url"),
     Response(200, FALSE, FALSE, "emptyFile"), Response(200, FALSE, FALSE, "bare"),
     Response(200, FALSE, FALSE, "dir"), Response(404, FALSE, FALSE, "none"),
     Response(403, FALSE, FALSE, "none"), NetworkError}
DownloadResponses ==
    {Response(200, FALSE, FALSE, "text"), Response(404, FALSE, FALSE, "none"),
     NetworkError}

\* createRequestHeaders: the Authorization header of a request, built with
\* the session that getSession(silent) gives at that moment.
createRequestHeaders(isEnterprise, sess) ==
    IF enableGithubAuth
    THEN IF isEnterprise /\ enterpriseToken THEN "enterpriseToken"
         ELSE IF sess THEN "session" ELSE "none"
    ELSE "none"

\* checkAuthentication
checkAuthentication(sess) == enterpriseToken \/ sess

\* ensureGitHubAuth up to its showInformationMessage: "prompt" says that the
\* sign-in offer is shown and the result depends on the user.
ensureGitHubAuth(isEnterprise, sess) ==
    IF ~enableGithubAuth THEN "false"
    ELSE IF isEnterprise /\ enterpriseToken THEN "true"
    ELSE IF sess THEN "true"
    ELSE "prompt"

\* handleAuthError up to its prompt: the messages it shows, and whether it
\* returns false at once or waits for the user's choice.
handleAuthError_NoRateLimit(resp) ==
    IF resp.status \in {401, 403}
    THEN IF ~enableGithubAuth
         THEN [next |-> "false", shown |-> {"authDisabledWarning"}]
         ELSE [next |-> "prompt", shown |-> {"authErrorPrompt"}]
    ELSE [next |-> "false", shown |-> {}]

handleAuthError_NoResponsePrompts(resp) ==
    IF resp.status \in {0, 401, 403}
    THEN IF ~enableGithubAuth
         THEN [next |-> "false", shown |-> {"authDisabledWarning"}]
         ELSE IF resp.remaining0
              THEN IF resp.reset
                   THEN [next |-> "prompt",
                         shown |-> {"rateLimitReset", "rateLimitPrompt"}]
                   ELSE [next |-> "false", shown |-> {}]
              ELSE [next |-> "prompt", shown |-> {"authErrorPrompt"}]
    ELSE [next |-> "false", shown |-> {}]

\* handleAuthError: statusCode is error.response?.status, undefined (0 here)
\* for an error without a response.
handleAuthError(resp) ==
    IF resp.status \in {401, 403}
    THEN IF ~enableGithubAuth
         THEN [next |-> "false", shown |-> {"authDisabledWarning"}]
         ELSE IF resp.remaining0
              THEN IF resp.reset
                   THEN [next |-> "prompt",
                         shown |-> {"rateLimitReset", "rateLimitPrompt"}]
                   ELSE [next |-> "false", shown |-> {}]
              ELSE [next |-> "prompt", shown |-> {"authErrorPrompt"}]
    ELSE [next |-> "false", shown |-> {}]

\* The catch block of a listing: 404 is an empty folder, everything else a
\* failure (thrown by getFilesByRepo, a status bar warning in getFiles).
ListingCatch_Rethrow(status) == "failed"

ListingCatch(status) == IF status = 404 THEN "empty" ELSE "failed"

\* The target of a request: isEnterprise as the fetch path computes it,
\* whether the repository is one of public GitHub, and the download_url of
\* its files.
RepoTarget(repo) ==
    [isEnterprise |-> repo.baseUrl # <<>>, public |-> repo.baseUrl = <<>>,
     downloadUrl |-> IF repo.baseUrl = <<>> THEN PublicDownloadUrl
                     ELSE EnterpriseDownloadUrl]

\* getFileContent(downloadUrl) of a file of repo
UrlTarget(repo) ==
    [isEnterprise |-> ~Includes(RepoTarget(repo).downloadUrl, GithubCom),
     public |-> repo.baseUrl = <<>>,
     downloadUrl |-> RepoTarget(repo).downloadUrl]

AuthSourceLists == {<<PublicRepo>>, <<EnterpriseRepo>>, <<PublicRepo, EnterpriseRepo>>}

\* A request on the wire: whether it goes to public GitHub, whether a
\* session was there when its headers were built, and its Authorization
\* header.
Sent(target, isEnterprise, sess) ==
    [public |-> target.public, session |-> sess,
     authorization |-> createRequestHeaders(isEnterprise, sess)]

NoAuthCall ==
    [op |-> "none", targets |-> <<>>, idx |-> 0, pc |-> "idle",
     first |-> NoResponse, last |-> NoResponse, wire |-> <<>>, shown |-> {},
     authRetried |-> "none", log |-> <<>>]

NoAuthRet == [op |-> "none", status |-> "none", log |-> <<>>]

\* const headers = await this.createRequestHeaders(isEnterprise);
\* axios.get(apiUrl, axiosConfig) for source idx
StartAttempt(cl, idx, sess) ==
    [cl EXCEPT !.idx = idx, !.pc = "request", !.first = NoResponse,
               !.last = NoResponse, !.shown = {}, !.authRetried = "none",
               !.wire = <<Sent(cl.targets[idx], cl.targets[idx].isEnterprise, sess)>>]

\* The request for the current source is over: getFiles goes on with the
\* next source and returns normally after the last one, the other calls
\* return or throw.
Finished(cl, outcome, sess) ==
    LET entry == [target |-> cl.targets[cl.idx], first |-> cl.first,
                  last |-> cl.last, wire |-> cl.wire, shown |-> cl.shown,
                  authRetried |-> cl.authRetried, outcome |-> outcome]
        done == [cl EXCEPT !.log = Append(@, entry)]
    IN IF cl.op = "getFiles" /\ cl.idx < Len(cl.targets)
       THEN [call |-> StartAttempt(done, cl.idx + 1, sess), ret |-> NoAuthRet]
       ELSE [call |-> NoAuthCall,
             ret |-> [op |-> cl.op,
                      status |-> IF cl.op = "getFiles" \/ outcome # "failed"
                                 THEN "ok" ELSE "throws",
                      log |-> done.log]]

AuthInit ==
    /\ enableGithubAuth \in BOOLEAN
    /\ enterpriseToken \in BOOLEAN
    /\ session \in BOOLEAN
    /\ proactiveOffers = 0
    /\ acall = NoAuthCall
    /\ aret = NoAuthRet

AuthOff ==
    /\ enableGithubAuth = FALSE
    /\ enterpriseToken = FALSE
    /\ session = FALSE
    /\ proactiveOffers = 0
    /\ acall = NoAuthCall
    /\ aret = NoAuthRet

\* The proactive check of getFilesByRepo (publicOnly) and getFiles, then the
\* first request.
ProactiveCheck(cl, publicOnly) ==
    IF /\ enableGithubAuth
       /\ ~(publicOnly /\ cl.targets[1].isEnterprise)
       /\ ~checkAuthentication(session)
       /\ ensureGitHubAuth(FALSE, session) = "prompt"
    THEN /\ proactiveOffers < MaxOffers
         /\ proactiveOffers' = proactiveOffers + 1
         /\ acall' = [cl EXCEPT !.idx = 1, !.pc = "proactiveOffer"]
    ELSE /\ acall' = StartAttempt(cl, 1, session)
         /\ UNCHANGED proactiveOffers

\* getFilesByRepo(repo, category) for a category that is not excluded and
\* not served from the cache
AuthGetFilesByRepo ==
    /\ acall = NoAuthCall
    /\ \E repo \in TlsRepos :
         ProactiveCheck([NoAuthCall EXCEPT !.op = "getFilesByRepo",
                                           !.targets = <<RepoTarget(repo)>>], TRUE)
    /\ aret' = NoAuthRet
    /\ UNCHANGED <<enableGithubAuth, enterpriseToken, session>>
    /\ UNCHANGED notAuthVars

\* getFiles(category) over sources none of which is served from the cache
AuthGetFiles ==
    /\ acall = NoAuthCall
    /\ \E sources \in AuthSourceLists :
         ProactiveCheck([NoAuthCall EXCEPT
                            !.op = "getFiles",
                            !.targets = [i \in 1..Len(sources) |-> RepoTarget(sources[i])]],
                        FALSE)
    /\ aret' = NoAuthRet
    /\ UNCHANGED <<enableGithubAuth, enterpriseToken, session>>
    /\ UNCHANGED notAuthVars

\* getFileContentByPath(repo, filePath)
AuthGetFileContentByPath ==
    /\ acall = NoAuthCall
    /\ \E repo \in TlsRepos :
         acall' = StartAttempt([NoAuthCall EXCEPT !.op = "getFileContentByPath",
                                                  !.targets = <<RepoTarget(repo)>>],
                               1, session)
    /\ aret' = NoAuthRet
    /\ UNCHANGED <<enableGithubAuth, enterpriseToken, session, proactiveOffers>>
    /\ UNCHANGED notAuthVars

\* getFileContent(file.download_url)
AuthGetFileContent ==
    /\ acall = NoAuthCall
    /\ \E repo \in TlsRepos :
         acall' = StartAttempt([NoAuthCall EXCEPT !.op = "getFileContent",
                                                  !.targets = <<UrlTarget(repo)>>],
                               1, session)
    /\ aret' = NoAuthRet
    /\ UNCHANGED <<enableGithubAuth, enterpriseToken, session, proactiveOffers>>
    /\ UNCHANGED notAuthVars

\* The retry of a listing request: headers are built again, the request is
\* sent again.
Retry(cl, sess) ==
    [cl EXCEPT !.pc = "retry", !.authRetried = "true",
               !.wire = Append(@, Sent(cl.targets[cl.idx],
                                       cl.targets[cl.idx].isEnterprise, sess))]

Continue(next) ==
    /\ acall' = next.call
    /\ aret' = next.ret

\* The user answers the sign-in offer of ensureGitHubAuth: Sign In and the
\* session is created, Sign In and it is not, or Skip.
SignInOfferAnswered ==
    /\ acall.pc \in {"proactiveOffer", "reauthOffer"}
    /\ \E answer \in {"signedIn", "signInFailed", "skip"} :
         LET sess == session \/ answer = "signedIn" IN
         /\ session' = sess
         /\ IF acall.pc = "proactiveOffer"
            THEN /\ acall' = StartAttempt(acall, 1, sess)
                 /\ aret' = aret
            ELSE IF answer = "signedIn"
            THEN /\ acall' = Retry(acall, sess)
                 /\ aret' = aret
            ELSE Continue(Finished([acall EXCEPT !.authRetried = "false"],
                                   ListingCatch(acall.first.status), sess))
    /\ UNCHANGED <<enableGithubAuth, enterpriseToken, proactiveOffers>>
    /\ UNCHANGED notAuthVars

\* The response to the first request of a listing arrives.
AuthListingResponds ==
    /\ acall.pc = "request"
    /\ acall.op \in {"getFiles", "getFilesByRepo"}
    /\ \E resp \in ListingResponses :
         LET h == handleAuthError(resp)
             cl == [acall EXCEPT !.first = resp, !.last = resp, !.shown = h.shown]
         IN IF resp.status = 200
            THEN Continue(Finished(cl, "files", session))
            ELSE IF h.next = "prompt"
            THEN /\ acall' = [cl EXCEPT !.pc = "authPrompt"]
                 /\ aret' = aret
            ELSE Continue(Finished([cl EXCEPT !.authRetried = "false"],
                                   ListingCatch(resp.status), session))
    /\ UNCHANGED <<enableGithubAuth, enterpriseToken, session, proactiveOffers>>
    /\ UNCHANGED notAuthVars

\* The user answers the prompt of handleAuthError.
AuthPromptAnswered ==
    /\ acall.pc = "authPrompt"
    /\ \E choice \in {"Sign In", "dismissed"} :
         LET t == acall.targets[acall.idx]
             ensured == ensureGitHubAuth(t.isEnterprise, session)
         IN IF choice = "Sign In" /\ ensured = "true"
            THEN /\ acall' = Retry(acall, session)
                 /\ aret' = aret
            ELSE IF choice = "Sign In" /\ ensured = "prompt"
            THEN /\ acall' = [acall EXCEPT !.pc = "reauthOffer",
                                           !.shown = @ \cup {"signInOffer"}]
                 /\ aret' = aret
            ELSE Continue(Finished([acall EXCEPT !.authRetried = "false"],
                                   ListingCatch(acall.first.status), session))
    /\ UNCHANGED <<enableGithubAuth, enterpriseToken, session, proactiveOffers>>
    /\ UNCHANGED notAuthVars

\* The response to the retried request arrives: a failure goes to the outer
\* catch block.
RetryResponds ==
    /\ acall.pc = "retry"
    /\ \E resp \in ListingResponses :
         Continue(Finished([acall EXCEPT !.last = resp],
                           IF resp.status = 200 THEN "files"
                           ELSE ListingCatch(resp.status), session))
    /\ UNCHANGED <<enableGithubAuth, enterpriseToken, session, proactiveOffers>>
    /\ UNCHANGED notAuthVars

ContentsCase_IgnoresContent(resp) ==
    IF resp.status # 200 THEN "error"
    ELSE IF resp.data \in {"content", "download_url", "emptyFile"} THEN "download"
    ELSE "error"

\* getFileContentByPath after the response: data.type === 'file' &&
\* data.content, then data.type === 'file' && data.download_url, then throw.
\* A request that failed has thrown before.
ContentsCase(resp) ==
    IF resp.status # 200 THEN "error"
    ELSE IF resp.data = "content" THEN "inline"
    ELSE IF resp.data \in {"download_url", "emptyFile"} THEN "download"
    ELSE "error"

\* The response to getFileContentByPath's request arrives: content, a file
\* over 1 MB that is downloaded with getFileContent, or an error.
ContentsResponds ==
    /\ acall.pc = "request"
    /\ acall.op = "getFileContentByPath"
    /\ \E resp \in ContentsResponses :
         LET cl == [acall EXCEPT !.first = resp, !.last = resp]
             t == acall.targets[acall.idx]
             isEnterprise == ~Includes(t.downloadUrl, GithubCom)
         IN IF ContentsCase(resp) = "inline"
            THEN Continue(Finished(cl, "content", session))
            ELSE IF ContentsCase(resp) = "download"
            THEN /\ acall' = [cl EXCEPT
                                 !.pc = "download",
                                 !.wire = Append(@, Sent(t, isEnterprise, session))]
                 /\ aret' = aret
            ELSE Continue(Finished(cl, "failed", session))
    /\ UNCHANGED <<enableGithubAuth, enterpriseToken, session, proactiveOffers>>
    /\ UNCHANGED notAuthVars

\* The response to a download (getFileContent) arrives.
DownloadResponds ==
    /\ \/ acall.pc = "download"
       \/ acall.pc = "request" /\ acall.op = "getFileContent"
    /\ \E resp \in DownloadResponses :
         Continue(Finished([acall EXCEPT !.first = IF acall.pc = "request" THEN resp ELSE @,
                                         !.last = resp],
                           IF resp.status = 200 THEN "content" ELSE "failed", session))
    /\ UNCHANGED <<enableGithubAuth, enterpriseToken, session, proactiveOffers>>
    /\ UNCHANGED notAuthVars

NextAuth ==
    \/ AuthGetFilesByRepo
    \/ AuthGetFiles
    \/ AuthGetFileContentByPath
    \/ AuthGetFileContent
    \/ SignInOfferAnswered
    \/ AuthListingResponds
    \/ AuthPromptAnswered
    \/ RetryResponds
    \/ ContentsResponds
    \/ DownloadResponds

\* The requests that are over, with the call they belong to.
AuthDone ==
    {[op |-> aret.op, e |-> aret.log[i]] : i \in 1..Len(aret.log)}
        \cup {[op |-> acall.op, e |-> acall.log[i]] : i \in 1..Len(acall.log)}

IsListing(op) == op \in {"getFiles", "getFilesByRepo"}

\* C11: a listing whose request ends with 404 gives the empty result for that
\* repository and the call does not throw (getFiles never throws,
\* getFilesByRepo returns normally); getFileContentByPath throws when its
\* request is answered with 404.
C11_NotFound ==
    /\ \A d \in AuthDone :
         (IsListing(d.op) /\ d.e.last.status = 404) => d.e.outcome = "empty"
    /\ aret.op = "getFiles" => aret.status = "ok"
    /\ (aret.op = "getFilesByRepo" /\ aret.log[1].last.status = 404)
          => aret.status = "ok"
    /\ (aret.op = "getFileContentByPath" /\ aret.log[1].last.status = 404)
          => aret.status = "throws"

\* getFiles over two sources returns normally with the files of the second
\* source after the listing of the first one was answered with 404.
C11_Witness ==
    /\ aret.op = "getFiles"
    /\ Len(aret.log) = 2
    /\ aret.log[1].first.status = 404
    /\ aret.log[1].outcome = "empty"
    /\ aret.log[2].outcome = "files"
    /\ aret.status = "ok"

\* The listing request of entry e was answered with 401 or 403.
AuthFailure(e) == e.first.status \in {401, 403}

\* One of the two prompts of handleAuthError that offer 'Sign In'.
Offered(e) == e.shown \cap {"authErrorPrompt", "rateLimitPrompt"} # {}

\* The request was sent again exactly when handleAuthError returned true, at
\* most once, and then with a credential.
RetriedOnce(e) ==
    /\ Len(e.wire) <= 2
    /\ Len(e.wire) = 2 <=> e.authRetried = "true"
    /\ Len(e.wire) = 2 => (Offered(e) /\ e.wire[2].authorization # "none")

\* C12: every listing request answered with 401 or 403 shows a prompt that
\* offers to sign in (read with the setting enableGithubAuth on, which is its
\* default); the request is sent again exactly when the user signed in on
\* that offer, once, with headers built again, and a failed retry is not
\* retried.
C12_RetryOnAuthFailure ==
    /\ Len(acall.wire) <= 2
    /\ \A d \in AuthDone :
         IsListing(d.op) =>
            /\ (enableGithubAuth /\ AuthFailure(d.e)) => Offered(d.e)
            /\ RetriedOnce(d.e)

\* The retry half of C12 holds in every state.
RetryHalfHolds ==
    /\ Len(acall.wire) <= 2
    /\ \A d \in AuthDone : IsListing(d.op) => RetriedOnce(d.e)

\* The listing request of entry e was answered with 403 and
\* x-ratelimit-remaining: 0.
RateLimited(e) == e.first.status = 403 /\ e.first.remaining0

AuthRequests ==
    {acall.wire[i] : i \in 1..Len(acall.wire)}
        \cup UNION {{d.e.wire[i] : i \in 1..Len(d.e.wire)} : d \in AuthDone}

\* C14: a request to an enterprise host carries the enterprise token when
\* one is configured; any other request carries the session token when a
\* session is there and no Authorization header otherwise; no request to
\* public GitHub carries the enterprise token (read with the setting
\* enableGithubAuth on, which is its default).
C14_CredentialResolution ==
    enableGithubAuth =>
        \A r \in AuthRequests :
            /\ r.authorization =
                  IF ~r.public /\ enterpriseToken THEN "enterpriseToken"
                  ELSE IF r.session THEN "session" ELSE "none"
            /\ r.public => r.authorization # "enterpriseToken"

\* A listing request has been sent by the call in progress or by the call
\* that returned last.
BulkFetchStarted ==
    \/ IsListing(acall.op) /\ acall.wire # <<>>
    \/ IsListing(aret.op)

\* C15: while no credential is available (no enterprise token, no session)
\* the sign-in offer of the proactive check has been shown at most once, and
\* it has been shown once a listing request was sent (read with the setting
\* enableGithubAuth on, which is its default).
C15_OfferedOnce ==
    (enableGithubAuth /\ ~enterpriseToken /\ ~session) =>
        /\ proactiveOffers <= 1
        /\ BulkFetchStarted => proactiveOffers = 1

\* A listing of entry e ended with an error other than 404.
ListingError(e) == e.outcome = "failed"

\* C26: a listing error other than 404 reaches the caller of getFiles and of
\* getFilesByRepo as an error: a call with such a listing throws and never
\* returns a result.
C26_ListingErrorsBubble ==
    (IsListing(aret.op) /\ \E i \in 1..Len(aret.log) : ListingError(aret.log[i]))
        => aret.status = "throws"

\* C27: a request that fails without a response is no retry trigger: no
\* prompt and no sign-in offer is shown for it, it is not sent again, and
\* the attempt fails.  This holds for the first request of an attempt and
\* for the request that follows a sign-in or a download_url.
C27_NetworkErrorNoRetry ==
    \A d \in AuthDone :
        /\ d.e.first = NetworkError =>
              /\ d.e.shown = {}
              /\ d.e.authRetried # "true"
              /\ Len(d.e.wire) = 1
              /\ d.e.last = NetworkError
              /\ d.e.outcome = "failed"
        /\ d.e.last = NetworkError =>
              /\ Len(d.e.wire) <= 2
              /\ d.e.outcome = "failed"

\* getFilesByRepo has thrown after its only request ended without a
\* response, with enableGithubAuth on and nothing shown.
C27_Witness ==
    /\ enableGithubAuth
    /\ aret.op = "getFilesByRepo"
    /\ aret.status = "throws"
    /\ aret.log[1].first = NetworkError
    /\ Len(aret.log[1].wire) = 1
    /\ aret.log[1].shown = {}

\* C28: getFileContentByPath returns the content of a response that carries
\* (non-empty) content without a further request; for a file whose content
\* is absent (null or empty) and whose download_url is present it sends
\* exactly one further request and returns the body of its response, or
\* fails with it; for a directory and for a file with neither it throws
\* without a further request.
C28_ContentByPath ==
    aret.op = "getFileContentByPath" =>
        LET e == aret.log[1] IN
        /\ Len(aret.log) = 1
        /\ (e.first.status = 200 /\ e.first.data = "content") =>
              /\ Len(e.wire) = 1
              /\ aret.status = "ok" /\ e.outcome = "content" /\ e.last = e.first
        /\ (e.first.status = 200 /\ e.first.data \in {"download_url", "emptyFile"}) =>
              /\ Len(e.wire) = 2
              /\ e.last \in DownloadResponses
              /\ e.last.status = 200 =>
                    aret.status = "ok" /\ e.outcome = "content" /\ e.last.data = "text"
              /\ e.last.status # 200 => aret.status = "throws"
        /\ (e.first.status = 200 /\ e.first.data \in {"dir", "bare"}) =>
              /\ Len(e.wire) = 1
              /\ aret.status = "throws"

\* A file over 1 MB was fetched with one further request, whose body was
\* returned.
C28_Witness ==
    /\ aret.op = "getFileContentByPath"
    /\ aret.log[1].first = Response(200, FALSE, FALSE, "download_url")
    /\ Len(aret.log[1].wire) = 2
    /\ aret.log[1].last = Response(200, FALSE, FALSE, "text")
    /\ aret.status = "ok"

----------------------------------------------------------------------------
(* extension.ts: downloadCopilotItem *)

MaxItems == 2

\* types.ts KIND_TO_CATEGORY, "undefined" for a kind that is no key
KIND_TO_CATEGORY(kind) ==
    CASE kind = "instruction" -> "instructions"
      [] kind = "prompt" -> "prompts"
      [] kind = "agent" -> "agents"
      [] kind = "skill" -> "skills"
      [] OTHER -> "undefined"

\* allowedKinds of parsePluginJson
AllowedKinds == {"instruction", "prompt", "agent", "skill"}

\* path.split('/').pop() || path
LastSegment(p) ==
    LET slashes == {i \in 1..Len(p) : p[i] = "/"} IN
    IF slashes = {} THEN p
    ELSE LET k == CHOOSE i \in slashes : \A j \in slashes : j <= i IN
         IF k = Len(p) THEN p ELSE SubSeq(p, k + 1, Len(p))

\* The items a plugin.json of the model can list: a skill folder, an agents
\* directory, a prompt file, and one item of a kind that is not allowed.
ManifestItems ==
    {[kind |-> "skill", path |-> <<"x", "/", "s">>],
     [kind |-> "agent", path |-> <<"x", "/", "a">>],
     [kind |-> "prompt", path |-> <<"x", "/", "p", ".", "m">>],
     [kind |-> "tool", path |-> <<"x", "/", "t">>]}
Manifests == UNION {[1..n -> ManifestItems] : n \in 0..MaxItems}

\* What the request for plugin.json gives: an error, or a file with items.
Fetched(ok, items) == [ok |-> ok, items |-> items]
FetchedManifests == {Fetched(FALSE, <<>>)} \cup {Fetched(TRUE, items) : items \in Manifests}

\* parsePluginJson throws when the file cannot be fetched or an item has a
\* kind that is not allowed, and returns the metadata otherwise.
parsePluginJson(fetched) ==
    IF ~fetched.ok THEN [throws |-> TRUE, items |-> <<>>]
    ELSE IF \E i \in 1..Len(fetched.items) : fetched.items[i].kind \notin AllowedKinds
    THEN [throws |-> TRUE, items |-> <<>>]
    ELSE [throws |-> FALSE, items |-> fetched.items]

\* A path below the workspace folder: FOLDER_PATHS[category] and a name.
LocalPath(category, name) == [folder |-> category, name |-> name]
NoPath == LocalPath("none", <<>>)

\* What the user can type into the input box for a skill folder and for a
\* file.
FolderNames == {<<"s">>, <<"t">>}
FileNames == {<<"f">>, <<"g">>}

NoDownload ==
    [kind |-> "none", pc |-> "idle", ended |-> "none", items |-> <<>>, idx |-> 0,
     downloadedCount |-> 0, errorCount |-> 0, failedFiles |-> <<>>,
     outcomes |-> <<>>, confirmed |-> FALSE, target |-> NoPath,
     existed |-> FALSE, overwrite |-> FALSE, removed |-> {}, written |-> FALSE,
     persisted |-> {}, logged |-> {}, readme |-> "unknown",
     recorded |-> FALSE, cacheCleared |-> FALSE, summary |-> FALSE]

DownloadInit ==
    /\ dl = NoDownload
    /\ localFiles \in SUBSET {LocalPath("skills", <<"s">>), LocalPath("prompts", <<"f">>)}

DownloadOff ==
    /\ dl = NoDownload
    /\ localFiles = {}

\* return, or the outer catch block with its error message
Ends(d, how) == [d EXCEPT !.pc = "idle", !.ended = how]

\* downloadCopilotItem(item) for a plugin folder, a skill folder or a file
DownloadItem ==
    /\ dl.ended # "running"
    /\ \E kind \in {"plugin", "skill", "file"} :
         dl' = [NoDownload EXCEPT
                   !.kind = kind, !.ended = "running",
                   !.pc = CASE kind = "plugin" -> "parsePluginJson"
                            [] kind = "skill" -> "folderName"
                            [] OTHER -> "filename"]
    /\ UNCHANGED localFiles
    /\ UNCHANGED notDownloadVars

\* parsePluginJson returns or throws; an empty manifest ends the download.
ParsePluginJsonResponds ==
    /\ dl.pc = "parsePluginJson"
    /\ \E fetched \in FetchedManifests :
         LET pluginResult == parsePluginJson(fetched) IN
         dl' = IF pluginResult.throws THEN Ends(dl, "resolution")
               ELSE IF Len(pluginResult.items) = 0 THEN Ends(dl, "empty")
               ELSE [dl EXCEPT !.pc = "confirm", !.items = pluginResult.items]
    /\ UNCHANGED localFiles
    /\ UNCHANGED notDownloadVars

\* The modal 'Download plugin ...?' is answered.
ConfirmAnswered ==
    /\ dl.pc = "confirm"
    /\ \E confirm \in {"Download", "dismissed"} :
         dl' = IF confirm # "Download" THEN Ends(dl, "cancelled")
               ELSE [dl EXCEPT !.pc = "items", !.idx = 1, !.confirmed = TRUE]
    /\ UNCHANGED localFiles
    /\ UNCHANGED notDownloadVars

\* The catch block of the item loop, and the unknown-kind branch.
CountFailure_NoPush(d, entry) ==
    [d EXCEPT !.errorCount = @ + 1, !.outcomes = Append(@, "failed"), !.idx = @ + 1]

CountFailure(d, entry) ==
    [d EXCEPT !.failedFiles = Append(@, entry), !.errorCount = @ + 1,
              !.outcomes = Append(@, "failed"), !.idx = @ + 1]

\* The local folder of a skill item of a plugin.
SkillItemTarget(pluginItem) == LocalPath("skills", LastSegment(pluginItem.path))

\* One pass of the item loop: the item is fetched and written (ok) or one of
\* its requests or writes throws (fails).  The folder of a skill item is
\* removed when it exists and created before anything is fetched.
ItemLoopStep(d, files, outcome) ==
    LET pluginItem == d.items[d.idx]
        category == KIND_TO_CATEGORY(pluginItem.kind)
        removed == IF pluginItem.kind = "skill" /\ SkillItemTarget(pluginItem) \in files
                   THEN d.removed \cup {SkillItemTarget(pluginItem)}
                   ELSE d.removed
        d1 == [d EXCEPT !.removed = removed]
    IN IF category = "undefined"
       THEN CountFailure(d, pluginItem.path \o <<" (unknown kind)">>)
       ELSE IF outcome = "ok"
       THEN [d1 EXCEPT !.downloadedCount = @ + 1, !.outcomes = Append(@, "ok"),
                       !.idx = @ + 1]
       ELSE CountFailure(d1, pluginItem.path)

\* After the loop: the plugin folder is created (outside every inner try)
\* and plugin.json is written; then getDirectoryContents is awaited.
SavePluginJson(d, mkdirOk, jsonOk) ==
    IF ~mkdirOk THEN Ends(d, "aborted")
    ELSE [d EXCEPT !.pc = "pluginContents",
                   !.persisted = IF jsonOk THEN @ \cup {"plugin.json"} ELSE @,
                   !.logged = IF jsonOk THEN @ ELSE @ \cup {"plugin.json"}]

\* The requests of one plugin item are over.
ItemDownloads ==
    /\ dl.pc = "items"
    /\ \E outcome \in {"ok", "fails"}, mkdirOk \in BOOLEAN, jsonOk \in BOOLEAN :
         LET pluginItem == dl.items[dl.idx]
             d1 == ItemLoopStep(dl, localFiles, outcome)
         IN /\ localFiles' = IF pluginItem.kind = "skill"
                             THEN localFiles \cup {SkillItemTarget(pluginItem)}
                             ELSE localFiles
            /\ dl' = IF d1.idx <= Len(d1.items) THEN d1
                     ELSE SavePluginJson(d1, mkdirOk, jsonOk)
    /\ UNCHANGED notDownloadVars

\* The listing of the plugin folder arrives (or fails); agents/, commands/,
\* README.md and the note file are saved, each failure is caught.
SaveCompanions(d, listing, hasReadme, dirs, readmeOk, noteOk) ==
    IF listing = "fails" \/ dirs = "mkdirFails" \/ ~noteOk
    THEN [d EXCEPT
            !.readme = IF listing = "fails" THEN "unknown"
                       ELSE IF hasReadme THEN "yes" ELSE "no",
            !.persisted = IF listing = "ok" /\ dirs # "mkdirFails" /\ hasReadme /\ readmeOk
                          THEN @ \cup {"README.md"} ELSE @,
            !.logged = (@ \cup {"additional"})
                          \cup (IF listing = "ok" /\ dirs = "fileFails"
                                THEN {"agents"} ELSE {})
                          \cup (IF listing = "ok" /\ dirs # "mkdirFails" /\ hasReadme
                                   /\ ~readmeOk
                                THEN {"README.md"} ELSE {})]
    ELSE [d EXCEPT
            !.readme = IF hasReadme THEN "yes" ELSE "no",
            !.persisted = (@ \cup {"NOTE"})
                             \cup (IF hasReadme /\ readmeOk THEN {"README.md"} ELSE {}),
            !.logged = (@ \cup (IF dirs = "fileFails" THEN {"agents"} ELSE {}))
                          \cup (IF hasReadme /\ ~readmeOk THEN {"README.md"} ELSE {})]

PluginContentsResponds ==
    /\ dl.pc = "pluginContents"
    /\ \E listing \in {"ok", "fails"}, hasReadme \in BOOLEAN,
          dirs \in {"none", "ok", "fileFails", "mkdirFails"},
          readmeOk \in BOOLEAN, noteOk \in BOOLEAN :
         dl' = [SaveCompanions(dl, listing, hasReadme, dirs, readmeOk, noteOk)
                   EXCEPT !.pc = "record"]
    /\ UNCHANGED localFiles
    /\ UNCHANGED notDownloadVars

\* downloadTracker.recordDownload returns: the cache of the category is
\* cleared and the summary or success message is shown.
RecordDownload ==
    /\ dl.pc = "record"
    /\ dl' = Ends([dl EXCEPT !.recorded = TRUE, !.cacheCleared = TRUE,
                             !.summary = TRUE], "completed")
    /\ UNCHANGED localFiles
    /\ UNCHANGED notDownloadVars

\* The input box for the skill folder name is answered.
FolderNameAnswered ==
    /\ dl.pc = "folderName"
    /\ \E folderName \in {<<>>} \cup FolderNames :
         LET targetSkillPath == LocalPath("skills", folderName) IN
         IF folderName = <<>>
         THEN /\ dl' = Ends(dl, "cancelled")
              /\ UNCHANGED localFiles
         ELSE IF targetSkillPath \in localFiles
         THEN /\ dl' = [dl EXCEPT !.pc = "overwrite", !.target = targetSkillPath,
                                  !.existed = TRUE]
              /\ UNCHANGED localFiles
         ELSE /\ dl' = [dl EXCEPT !.pc = "skillContents", !.target = targetSkillPath]
              /\ localFiles' = localFiles \cup {targetSkillPath}
    /\ UNCHANGED notDownloadVars

\* The input box for the file name is answered.
FilenameAnswered ==
    /\ dl.pc = "filename"
    /\ \E filename \in {<<>>} \cup FileNames :
         LET targetFilePath == LocalPath("prompts", filename) IN
         dl' = IF filename = <<>> THEN Ends(dl, "cancelled")
               ELSE IF targetFilePath \in localFiles
               THEN [dl EXCEPT !.pc = "overwrite", !.target = targetFilePath,
                               !.existed = TRUE]
               ELSE [dl EXCEPT !.pc = "fetchFile", !.target = targetFilePath]
    /\ UNCHANGED localFiles
    /\ UNCHANGED notDownloadVars

\* if (overwrite !== 'Overwrite') return;
OverwriteDeclined_Never(overwrite) == FALSE

OverwriteDeclined(overwrite) == overwrite # "Overwrite"

\* The warning '... already exists. Do you want to overwrite it?' is
\* answered; the folder of a skill is removed and created again.
OverwriteAnswered ==
    /\ dl.pc = "overwrite"
    /\ \E overwrite \in {"Overwrite", "Cancel", "dismissed"} :
         dl' = IF OverwriteDeclined(overwrite) THEN Ends(dl, "cancelled")
               ELSE IF dl.kind = "skill"
               THEN [dl EXCEPT !.pc = "skillContents",
                               !.overwrite = overwrite = "Overwrite",
                               !.removed = @ \cup {dl.target}]
               ELSE [dl EXCEPT !.pc = "fetchFile",
                               !.overwrite = overwrite = "Overwrite"]
    /\ UNCHANGED localFiles
    /\ UNCHANGED notDownloadVars

\* The requests for the files of the skill folder are over.
SkillContentsResponds ==
    /\ dl.pc = "skillContents"
    /\ \E outcome \in {"ok", "fails"} :
         dl' = IF outcome = "ok" THEN [dl EXCEPT !.pc = "record", !.written = TRUE]
               ELSE Ends(dl, "aborted")
    /\ UNCHANGED localFiles
    /\ UNCHANGED notDownloadVars

\* getFileContent(item.file.download_url) returns or throws.
FileContentResponds ==
    /\ dl.pc = "fetchFile"
    /\ \E outcome \in {"ok", "fails"} :
         IF outcome = "ok"
         THEN /\ dl' = [dl EXCEPT !.pc = "record", !.written = TRUE]
              /\ localFiles' = localFiles \cup {dl.target}
         ELSE /\ dl' = Ends(dl, "aborted")
              /\ UNCHANGED localFiles
    /\ UNCHANGED notDownloadVars

NextDownload ==
    \/ DownloadItem
    \/ ParsePluginJsonResponds
    \/ ConfirmAnswered
    \/ ItemDownloads
    \/ PluginContentsResponds
    \/ RecordDownload
    \/ FolderNameAnswered
    \/ FilenameAnswered
    \/ OverwriteAnswered
    \/ SkillContentsResponds
    \/ FileContentResponds

\* The item loop of a plugin download is over.
LoopOver == dl.kind = "plugin" /\ dl.confirmed /\ dl.idx > Len(dl.items)

\* The paths of the items that failed, in manifest order.
RECURSIVE FailedPaths(_, _)
FailedPaths(items, outcomes) ==
    IF outcomes = <<>> THEN <<>>
    ELSE IF Head(outcomes) = "failed"
    THEN <<Head(items).path>> \o FailedPaths(Tail(items), Tail(outcomes))
    ELSE FailedPaths(Tail(items), Tail(outcomes))

\* C16: in a plugin download every item the loop has passed was counted
\* once, as downloaded or as failed, and failedFiles holds the paths of the
\* failed ones; after the loop every manifest item has been attempted and
\* downloadedCount + errorCount is the number of manifest items.
C16_BundleAccounting ==
    (dl.kind = "plugin" /\ dl.confirmed) =>
        /\ Len(dl.outcomes) = dl.idx - 1
        /\ dl.downloadedCount + dl.errorCount = Len(dl.outcomes)
        /\ dl.errorCount = Len(dl.failedFiles)
        /\ dl.failedFiles = FailedPaths(dl.items, dl.outcomes)
        /\ dl.ended # "running" => LoopOver
        /\ LoopOver => dl.downloadedCount + dl.errorCount = Len(dl.items)

\* A plugin download of two items is over with the first item failed and
\* the second one downloaded.
C16_Witness ==
    /\ LoopOver
    /\ dl.ended = "completed"
    /\ Len(dl.items) = 2
    /\ dl.outcomes = <<"failed", "ok">>
    /\ dl.downloadedCount = 1
    /\ dl.errorCount = 1
    /\ dl.failedFiles = <<dl.items[1].path>>

\* A plugin download that got the manifest and the user's 'Download' is over.
ConfirmedPluginOver == dl.kind = "plugin" /\ dl.confirmed /\ dl.ended # "running"

\* C17: a plugin download that passed the manifest and the confirmation was
\* not aborted, whatever items failed, and each of plugin.json, README.md
\* (when the plugin has one) and the note file was written or its failure
\* was logged.
C17_CompanionsPersisted ==
    ConfirmedPluginOver =>
        /\ dl.ended = "completed"
        /\ "plugin.json" \in dl.persisted \cup dl.logged
        /\ "NOTE" \in dl.persisted \/ "additional" \in dl.logged
        /\ dl.readme = "yes" =>
              ("README.md" \in dl.persisted \cup dl.logged \/ "additional" \in dl.logged)

\* C18: a plugin download that passed the manifest and the confirmation does
\* not end before recordDownload, the cache clear and the summary.
C18_ReachesRecorded ==
    ConfirmedPluginOver => (dl.recorded /\ dl.cacheCleared /\ dl.summary)

\* C19: a file download that wrote a file which existed when it was looked
\* for had the user's 'Overwrite'; a download the user cancelled (at the
\* input box or at the overwrite warning) wrote nothing, recorded nothing
\* and left the cache alone.
C19_NoSilentOverwrite ==
    dl.kind = "file" =>
        /\ (dl.written /\ dl.existed) => dl.overwrite
        /\ dl.ended = "cancelled" =>
              (~dl.written /\ ~dl.recorded /\ ~dl.cacheCleared)
        /\ dl.ended = "cancelled" => (dl.existed \/ dl.target = NoPath)

\* A file download has replaced an existing file after 'Overwrite'.
C19_Witness ==
    /\ dl.kind = "file"
    /\ dl.ended = "completed"
    /\ dl.existed
    /\ dl.overwrite
    /\ dl.written
    /\ dl.target \in localFiles

\* C20: no download removes a local folder without the user's 'Overwrite'
\* for that folder, be it the download of a skill or of a skill item of a
\* plugin.
C20_FolderRemovedOnConfirm ==
    dl.removed # {} => dl.overwrite

\* C38: when the directory listing or a file fetch of a skill download has
\* failed, a folder of that name that existed before the download started
\* still has the contents it had: the download has not removed it.
C38_FailureKeepsLocalFolder ==
    (dl.kind = "skill" /\ dl.ended = "aborted" /\ dl.existed)
        => dl.target \notin dl.removed

----------------------------------------------------------------------------
(* githubService.ts: parsePluginJson on one fetched plugin.json *)

MaxManifestItems == 2

\* A JSON value that is no string, null or undefined (a number).
Num == [t |-> "number", s |-> <<>>]

\* A JSON array, and any value Array.isArray rejects (a missing field too).
Arr(a) == [isArray |-> TRUE, a |-> a]
NotArr == [isArray |-> FALSE, a |-> <<>>]

\* One entry of "items".  The word of a kind is held as a string of a single
\* token, so that trim() and allowedKinds.includes() act on it as on text.
Item(isObject, path, kind) == [isObject |-> isObject, path |-> path, kind |-> kind]
KindText(kind) == Str(<<kind>>)

\* JSON.parse(fileData.content): text that is no JSON, the JSON null, or an
\* object with the fields parsePluginJson reads.
PluginJson(name, description, items, agents, skills, id) ==
    [json |-> "object", name |-> name, description |-> description,
     items |-> items, agents |-> agents, skills |-> skills, id |-> id]
NotJson == [PluginJson(Undefined, Undefined, NotArr, NotArr, NotArr, Undefined)
               EXCEPT !.json = "invalid"]
NullJson == [NotJson EXCEPT !.json = "null"]

ManifestNames == {Undefined, Num, Str(<<>>), Str(<<" ">>), Str(<<"n">>)}
ManifestDescriptions == {Undefined, Str(<<" ">>), Str(<<"d">>)}
ManifestIds == {Undefined, Num, Str(<<>>), Str(<<"i">>)}
ItemValues ==
    {Item(TRUE, Str(<<"s", "/", "b">>), KindText("skill")),
     Item(FALSE, Undefined, Undefined),
     Item(TRUE, Str(<<" ">>), KindText("skill")),
     Item(TRUE, Str(<<"t">>), KindText("tool")),
     Item(TRUE, Str(<<" ">>), Undefined),
     Item(TRUE, Str(<<"t">>), Str(<<" ">>))}
ItemArrays ==
    {NotArr} \cup {Arr(a) : a \in UNION {[1..n -> ItemValues] : n \in 0..MaxManifestItems}}
AgentArrays == {NotArr, Arr(<<<<".", "/", "a">>>>)}
SkillArrays ==
    {NotArr, Arr(<<<<".", "/", "s", "/">>>>),
     Arr(<<<<".", "/", "s", "/", "b", "/">>, <<".", "/", "t">>>>)}
\* The path of a plugin directory is the path of a listed item: it has no
\* trailing slash.
PluginDirPaths == {<<"p", "/", "f">>, <<"f">>}

FetchedContents ==
    {NotJson, NullJson} \cup
    {PluginJson(n, d, i, a, s, id) :
        n \in ManifestNames, d \in ManifestDescriptions, i \in ItemArrays,
        a \in AgentArrays, s \in SkillArrays, id \in ManifestIds}

\* Error messages are sequences of fragments; the name of a field is a
\* fragment of its own.
InvalidFormat == "Invalid plugin.json format: "
FailedToParse == "Failed to parse plugin.json"
FieldError(field, what) ==
    <<InvalidFormat, "missing or invalid ", "\"", field, "\"", what>>
ItemErrorAt(index, rest) ==
    <<InvalidFormat, "item at index ", ToString(index), " ">> \o rest
NamesField(message, field) == \E k \in 1..Len(message) : message[k] = field

\* typeof v !== 'string' || !v.trim()
NotNonBlankString(v) == v.t # "string" \/ Trim(v.s) = <<>>

ItemError_KindFirst(item, index) ==
    IF ~item.isObject THEN ItemErrorAt(index, <<"is not an object">>)
    ELSE IF NotNonBlankString(item.kind)
    THEN ItemErrorAt(index, <<"is missing or has an invalid ", "\"", "kind", "\"", " field">>)
    ELSE IF NotNonBlankString(item.path)
    THEN ItemErrorAt(index, <<"is missing or has an invalid ", "\"", "path", "\"", " field">>)
    ELSE IF item.kind \notin {KindText(k) : k \in AllowedKinds}
    THEN ItemErrorAt(index, <<"has unsupported ", "\"", "kind", "\"", " value">>)
    ELSE <<>>

\* The body of metadata.items.forEach for one item: the message of the error
\* it throws, <<>> when it throws none.
ItemError(item, index) ==
    IF ~item.isObject THEN ItemErrorAt(index, <<"is not an object">>)
    ELSE IF NotNonBlankString(item.path)
    THEN ItemErrorAt(index, <<"is missing or has an invalid ", "\"", "path", "\"", " field">>)
    ELSE IF NotNonBlankString(item.kind)
    THEN ItemErrorAt(index, <<"is missing or has an invalid ", "\"", "kind", "\"", " field">>)
    ELSE IF item.kind \notin {KindText(k) : k \in AllowedKinds}
    THEN ItemErrorAt(index, <<"has unsupported ", "\"", "kind", "\"", " value">>)
    ELSE <<>>

ValidationError_ItemsFirst(metadata) ==
    IF metadata.json = "invalid" THEN <<InvalidFormat, "not valid JSON">>
    ELSE IF metadata.json # "object"
    THEN <<InvalidFormat, "metadata is missing or not an object">>
    ELSE IF ~metadata.items.isArray THEN FieldError("items", " array")
    ELSE IF NotNonBlankString(metadata.name) THEN FieldError("name", " field")
    ELSE IF NotNonBlankString(metadata.description)
    THEN FieldError("description", " field")
    ELSE <<>>

\* The checks of parsePluginJson between JSON.parse and the derivation of
\* the id, in their order: the message of the first error thrown, <<>> when
\* the metadata passes.
ValidationError(metadata) ==
    IF metadata.json = "invalid" THEN <<InvalidFormat, "not valid JSON">>
    ELSE IF metadata.json # "object"
    THEN <<InvalidFormat, "metadata is missing or not an object">>
    ELSE IF NotNonBlankString(metadata.name) THEN FieldError("name", " field")
    ELSE IF NotNonBlankString(metadata.description)
    THEN FieldError("description", " field")
    ELSE IF ~metadata.items.isArray THEN FieldError("items", " array")
    ELSE LET items == metadata.items.a
             bad == {k \in 1..Len(items) : ItemError(items[k], k - 1) # <<>>}
         IN IF bad = {} THEN <<>>
            ELSE LET k == CHOOSE i \in bad : \A j \in bad : i <= j
                 IN ItemError(items[k], k - 1)

\* pluginDirPath.split('/'), last element
LastPathPart(p) ==
    LET slashes == {i \in 1..Len(p) : p[i] = "/"} IN
    IF slashes = {} THEN p
    ELSE LET k == CHOOSE i \in slashes : \A j \in slashes : j <= i
         IN SubSeq(p, k + 1, Len(p))

DeriveId_Always(metadata, pluginDirPath) ==
    [metadata EXCEPT !.id = Str(LastPathPart(pluginDirPath))]

\* if (!metadata.id || typeof metadata.id !== 'string') metadata.id = ...
DeriveId(metadata, pluginDirPath) ==
    IF metadata.id.t # "string" \/ metadata.id.s = <<>>
    THEN [metadata EXCEPT !.id = Str(LastPathPart(pluginDirPath))]
    ELSE metadata

\* What getFileContentByPath gives parsePluginJson: an error, or the file.
FileData(ok, content) == [ok |-> ok, content |-> content]

ParseResult(throws, message, metadata, rawContent) ==
    [throws |-> throws, message |-> message, metadata |-> metadata,
     rawContent |-> rawContent]
ParseError(message) ==
    ParseResult(TRUE, <<FailedToParse, ": ">> \o message, NotJson, NotJson)

\* parsePluginJson with its catch block, which wraps every error.
parsePluginJsonResult(fileData, pluginDirPath) ==
    IF ~fileData.ok THEN ParseError(<<"Failed to fetch file content for path">>)
    ELSE LET metadata == fileData.content
             error == ValidationError(metadata)
         IN IF error # <<>> THEN ParseError(error)
            ELSE ParseResult(FALSE, <<>>, DeriveId(metadata, pluginDirPath),
                             fileData.content)

NoParseResult == ParseResult(FALSE, <<>>, NotJson, NotJson)
NoManifest ==
    [pc |-> "off", fileData |-> FileData(FALSE, NotJson), dir |-> <<>>,
     result |-> NoParseResult]

ManifestInit ==
    \E fileData \in {FileData(FALSE, NotJson)} \cup
                    {FileData(TRUE, c) : c \in FetchedContents},
       dir \in PluginDirPaths :
        mf = [pc |-> "fetched", fileData |-> fileData, dir |-> dir,
              result |-> NoParseResult]

ManifestOff == mf = NoManifest

ParsePluginJson ==
    /\ mf.pc = "fetched"
    /\ mf' = [mf EXCEPT !.pc = "parsed",
                        !.result = parsePluginJsonResult(mf.fileData, mf.dir)]
    /\ UNCHANGED notMfVars

NextManifest == ParsePluginJson

\* The manifest parsePluginJson was given, once it has returned or thrown.
MfParsed == mf.pc = "parsed" /\ mf.fileData.ok /\ mf.fileData.content.json = "object"
MfIn == mf.fileData.content

StripShorthand(e) ==
    LET a == IF Len(e) >= 2 /\ e[1] = "." /\ e[2] = "/" THEN SubSeq(e, 3, Len(e)) ELSE e
    IN IF a # <<>> /\ a[Len(a)] = "/" THEN SubSeq(a, 1, Len(a) - 1) ELSE a

ShorthandItems(dir, entries, kind) ==
    [k \in 1..Len(entries) |->
        Item(TRUE, Str(dir \o <<"/">> \o StripShorthand(entries[k])), KindText(kind))]

\* C22: a manifest in directory D with name and description, no items array
\* and agents and/or skills arrays parses into the items of the agents
\* followed by those of the skills, each entry e giving the item of its kind
\* with path D + "/" + e without leading "./" and trailing "/".
C22_ShorthandExpanded ==
    /\ MfParsed
    /\ ~NotNonBlankString(MfIn.name) /\ ~NotNonBlankString(MfIn.description)
    /\ ~MfIn.items.isArray
    /\ MfIn.agents.isArray \/ MfIn.skills.isArray
    => /\ ~mf.result.throws
       /\ mf.result.metadata.items =
             Arr(ShorthandItems(mf.dir, MfIn.agents.a, "agent")
                 \o ShorthandItems(mf.dir, MfIn.skills.a, "skill"))

\* seg is what follows the last "/" of path (all of path when it has none).
IsFinalSegment(seg, path) ==
    /\ Len(seg) <= Len(path)
    /\ seg = SubSeq(path, Len(path) - Len(seg) + 1, Len(path))
    /\ \A k \in 1..Len(seg) : seg[k] # "/"
    /\ Len(seg) < Len(path) => path[Len(path) - Len(seg)] = "/"

\* C23: the id of a parsed manifest is the id of the JSON when that is a
\* non-empty string and the final segment of the plugin directory's path
\* otherwise, and rawContent is the fetched content, unchanged.
C23_IdAndRawContent ==
    mf.pc = "parsed" /\ ~mf.result.throws =>
        /\ mf.result.rawContent = mf.fileData.content
        /\ mf.result.metadata.id.t = "string"
        /\ IF MfIn.id.t = "string" /\ MfIn.id.s # <<>>
           THEN mf.result.metadata.id = MfIn.id
           ELSE IsFinalSegment(mf.result.metadata.id.s, mf.dir)

\* A manifest with an id of its own has been parsed in a directory of
\* another name, and the id is the manifest's.
C23_Witness ==
    /\ mf.pc = "parsed" /\ ~mf.result.throws
    /\ mf.dir = <<"p", "/", "f">>
    /\ MfIn.id = Str(<<"i">>)
    /\ mf.result.metadata.id = Str(<<"i">>)
    /\ mf.result.rawContent = mf.fileData.content

\* The checks of a manifest, numbered in the order of the claim: 1 the
\* JSON parses, 2 the value is a non-null object, 3 name, 4 description,
\* 5 the item set, and for the item at index k (from 0) the checks
\* 6 + 4k (object shape), 7 + 4k (path), 8 + 4k (kind is a non-blank
\* string) and 9 + 4k (kind is an allowed one).
ManifestChecks(metadata) == 1..(5 + 4 * Len(metadata.items.a))
ItemOfCheck(metadata, c) == metadata.items.a[((c - 6) \div 4) + 1]
CheckFails(metadata, c) ==
    CASE c = 1 -> metadata.json = "invalid"
      [] c = 2 -> metadata.json # "object"
      [] c = 3 -> metadata.name.t # "string" \/ Trim(metadata.name.s) = <<>>
      [] c = 4 -> metadata.description.t # "string" \/ Trim(metadata.description.s) = <<>>
      [] c = 5 -> ~metadata.items.isArray
      [] OTHER ->
            LET item == ItemOfCheck(metadata, c) IN
            CASE (c - 6) % 4 = 0 -> ~item.isObject
              [] (c - 6) % 4 = 1 -> item.path.t # "string" \/ Trim(item.path.s) = <<>>
              [] (c - 6) % 4 = 2 -> item.kind.t # "string" \/ Trim(item.kind.s) = <<>>
              [] OTHER -> \A k \in AllowedKinds : item.kind # Str(<<k>>)
CheckReason(c) ==
    CASE c = 1 -> <<InvalidFormat, "not valid JSON">>
      [] c = 2 -> <<InvalidFormat, "metadata is missing or not an object">>
      [] c = 3 -> <<InvalidFormat, "missing or invalid ", "\"", "name", "\"", " field">>
      [] c = 4 -> <<InvalidFormat, "missing or invalid ", "\"", "description", "\"", " field">>
      [] c = 5 -> <<InvalidFormat, "missing or invalid ", "\"", "items", "\"", " array">>
      [] OTHER ->
            <<InvalidFormat, "item at index ", ToString((c - 6) \div 4), " ">> \o
            (CASE (c - 6) % 4 = 0 -> <<"is not an object">>
               [] (c - 6) % 4 = 1 ->
                     <<"is missing or has an invalid ", "\"", "path", "\"", " field">>
               [] (c - 6) % 4 = 2 ->
                     <<"is missing or has an invalid ", "\"", "kind", "\"", " field">>
               [] OTHER -> <<"has unsupported ", "\"", "kind", "\"", " value">>)
FailingChecks(metadata) == {c \in ManifestChecks(metadata) : CheckFails(metadata, c)}
\* A manifest on which the item-set check reads the same whether or not the
\* shorthand arrays count as an item set (that difference is C22's).
NoShorthandOnly(metadata) ==
    metadata.items.isArray \/ (~metadata.agents.isArray /\ ~metadata.skills.isArray)

\* C31: the checks have reasons that differ from one another, and a fetched
\* manifest that fails one or more of them is rejected with the reason of
\* the earliest failing check alone, in the order JSON, object, name,
\* description, item set, then item by item object shape, path, kind,
\* allowed kind; a manifest that fails none is not rejected.  (For a
\* manifest with shorthand arrays and no items array, only the checks before
\* the item set are stated.)
C31_FirstFailureReported ==
    mf.pc = "parsed" /\ mf.fileData.ok =>
        LET metadata == mf.fileData.content
            failing == FailingChecks(metadata)
            early == {c \in failing : c <= 4}
            first(S) == CHOOSE c \in S : \A d \in S : c <= d
        IN /\ \A c, d \in ManifestChecks(metadata) :
                 c # d => CheckReason(c) # CheckReason(d)
           /\ early # {} =>
                 /\ mf.result.throws
                 /\ mf.result.message = <<FailedToParse, ": ">> \o CheckReason(first(early))
           /\ NoShorthandOnly(metadata) =>
                 IF failing = {} THEN ~mf.result.throws
                 ELSE /\ mf.result.throws
                      /\ mf.result.message =
                            <<FailedToParse, ": ">> \o CheckReason(first(failing))

\* A manifest whose first item is sound and whose second item has both a
\* blank path and a missing kind was rejected for the path of item 1.
C31_Witness ==
    /\ mf.pc = "parsed" /\ mf.fileData.ok /\ mf.result.throws
    /\ MfIn.json = "object" /\ MfIn.items.isArray /\ Len(MfIn.items.a) = 2
    /\ FailingChecks(MfIn) = {11, 12, 13}
    /\ mf.result.message = <<FailedToParse, ": ">> \o CheckReason(11)

----------------------------------------------------------------------------
(* githubService.ts and extension.ts: the URLs of the contents requests *)
(* for a repository configured with or without a branch                 *)

RefParam == <<"?", "r", "e", "f", "=">>

\* encodeURIComponent on the characters of the model's branch names
RECURSIVE EncodeURIComponent(_)
EncodeURIComponent(s) ==
    IF s = <<>> THEN <<>>
    ELSE (IF Head(s) = "/" THEN <<"%", "2", "F">> ELSE <<Head(s)>>)
         \o EncodeURIComponent(Tail(s))

\* The branch property of a configured repository: absent, or a name.
Branches == {Undefined, Str(<<"d">>), Str(<<"a", "/", "b">>)}

\* checkFolder's apiUrl in the add-repository command, with its refSuffix
CheckFolderUrlAt(repo, cat, branch) ==
    CheckFolderUrl(repo, cat)
        \o (IF branch.t = "string" /\ branch.s # <<>>
            THEN RefParam \o EncodeURIComponent(branch.s) ELSE <<>>)

BranchCategories == {"prompts", "skills"}
ContentRequest(op, url) == [op |-> op, url |-> url]

NoBranch == [pc |-> "off", repo |-> PublicRepo, branch |-> Undefined, sent |-> {}]

BranchInit ==
    \E repo \in TlsRepos, branch \in Branches :
        br = [pc |-> "configured", repo |-> repo, branch |-> branch, sent |-> {}]

BranchOff == br = NoBranch

\* The request an operation of the service makes for the configured
\* repository goes to the URL buildApiUrlForPath gives for (repo, path).
ServiceSends(op, path) ==
    /\ br.pc = "configured"
    /\ br' = [br EXCEPT !.sent = @ \cup {ContentRequest(op, buildApiUrlForPath(br.repo, path))}]
    /\ UNCHANGED notBrVars

BranchGetFiles ==
    \E category \in BranchCategories :
        LET contentPath == resolveContentPath(br.repo, category) IN
        /\ contentPath # Null
        /\ ServiceSends("getFiles", contentPath.s)

BranchGetFilesByRepo ==
    \E category \in BranchCategories :
        LET contentPath == resolveContentPath(br.repo, category) IN
        /\ contentPath # Null
        /\ ServiceSends("getFilesByRepo", contentPath.s)

BranchGetFileContentByPath ==
    \E filePath \in {DirPath \o <<"/", "f">>} :
        ServiceSends("getFileContentByPath", filePath)

BranchGetDirectoryContents ==
    \E path \in {DirPath} :
        ServiceSends("getDirectoryContents", path)

\* The add-repository command validates the repository's folders.
BranchCheckFolder ==
    \E cat \in BranchCategories :
        /\ br.pc = "configured"
        /\ br' = [br EXCEPT !.sent =
                     @ \cup {ContentRequest("checkFolder", CheckFolderUrlAt(br.repo, cat, br.branch))}]
        /\ UNCHANGED notBrVars

NextBranch ==
    \/ BranchGetFiles
    \/ BranchGetFilesByRepo
    \/ BranchGetFileContentByPath
    \/ BranchGetDirectoryContents
    \/ BranchCheckFolder

ServiceOps == {"getFiles", "getFilesByRepo", "getFileContentByPath", "getDirectoryContents"}

\* C24: for a repository with a branch every contents request of getFiles,
\* getFilesByRepo, getFileContentByPath and getDirectoryContents carries
\* ?ref={branch}, and for a repository without one none carries a ref
\* parameter.
C24_RequestsCarryRef ==
    \A r \in br.sent :
        r.op \in ServiceOps =>
            IF br.branch.t = "string"
            THEN Includes(r.url, RefParam \o br.branch.s)
                 \/ Includes(r.url, RefParam \o EncodeURIComponent(br.branch.s))
            ELSE ~Includes(r.url, RefParam)

----------------------------------------------------------------------------
(* searchBar.ts: the search term, its change event and the item filter *)

MaxSearchItems == 2

\* The names of the items of one tree, and what the user can type as a term.
SearchNames ==
    {<<"R">>, <<"o">>, <<"r", "o">>, <<"o", "R">>, <<"O", "r">>, <<"o", "o">>}
SearchItemLists == UNION {[1..n -> SearchNames] : n \in 0..MaxSearchItems}
TypedTerms ==
    {<<>>, <<" ">>, <<"r">>, <<"O">>, <<" ", "r">>, <<"O", " ">>, <<"r", "O">>,
     <<" ", "o", "R", " ">>, <<"r", " ", "o">>}

matchesSearch_CaseSensitive(searchTerm, fileName) ==
    IF searchTerm = <<>> THEN TRUE
    ELSE Includes(fileName, searchTerm)

\* matchesSearch with this.searchTerm as a parameter
matchesSearch(searchTerm, fileName) ==
    IF searchTerm = <<>> THEN TRUE
    ELSE Includes(ToLowerCase(fileName), ToLowerCase(searchTerm))

\* filterItems with this.searchTerm as a parameter; an item is its name
filterItems(searchTerm, items) ==
    IF searchTerm = <<>> THEN items
    ELSE SelectSeq(items, LAMBDA item : matchesSearch(searchTerm, item))

\* The SearchBar after an operation: the term, the operation and the text it
\* was given, the values it fired on onSearchChange, and what it returned.
SearchState(searchTerm, op, arg, fired, items, filtered) ==
    [searchTerm |-> searchTerm, op |-> op, arg |-> arg, fired |-> fired,
     items |-> items, filtered |-> filtered]

NoSearch == SearchState(<<>>, "off", Undefined, <<>>, <<>>, <<>>)

SearchInit ==
    \E items \in SearchItemLists :
        search = SearchState(<<>>, "constructor", Undefined, <<>>, items, <<>>)

SearchOff == search = NoSearch

SetSearchTerm ==
    /\ search.op # "off"
    /\ \E term \in TypedTerms :
         search' = SearchState(Trim(term), "setSearchTerm", Str(term),
                               <<Trim(term)>>, search.items, <<>>)
    /\ UNCHANGED notSearchVars

\* The input box is answered with a text, or dismissed (undefined).
ShowSearchInput ==
    /\ search.op # "off"
    /\ \E result \in {Undefined} \cup {Str(t) : t \in TypedTerms} :
         search' = IF result # Undefined
                   THEN SearchState(Trim(result.s), "showSearchInput", result,
                                    <<Trim(result.s)>>, search.items, <<>>)
                   ELSE SearchState(search.searchTerm, "showSearchInput", result,
                                    <<>>, search.items, <<>>)
    /\ UNCHANGED notSearchVars

ClearSearch ==
    /\ search.op # "off"
    /\ search' = SearchState(<<>>, "clearSearch", Undefined, <<<<>>>>, search.items, <<>>)
    /\ UNCHANGED notSearchVars

FilterItems ==
    /\ search.op # "off"
    /\ search' = SearchState(search.searchTerm, "filterItems", Undefined, <<>>,
                             search.items,
                             filterItems(search.searchTerm, search.items))
    /\ UNCHANGED notSearchVars

NextSearch == SetSearchTerm \/ ShowSearchInput \/ ClearSearch \/ FilterItems

\* Two characters are the same letter, case apart.
SameLetter(a, b) == a = b \/ {a, b} \in {{"r", "R"}, {"o", "O"}}

\* name contains term, ignoring case.
ContainsIgnoringCase(name, term) ==
    \E i \in 1..(Len(name) - Len(term) + 1) :
        \A k \in 1..Len(term) : SameLetter(name[i + k - 1], term[k])

\* The positions of the items that match the term, and sub as the items at
\* exactly these positions, in their order.
MatchingPositions(items, term) ==
    {i \in 1..Len(items) : term = <<>> \/ ContainsIgnoringCase(items[i], term)}
IsSelection(sub, items, positions) ==
    /\ Len(sub) = Cardinality(positions)
    /\ \E f \in [1..Len(sub) -> positions] :
          /\ \A a, b \in 1..Len(sub) : a < b => f[a] < f[b]
          /\ \A a \in 1..Len(sub) : sub[a] = items[f[a]]

\* C29: matchesSearch(name) is true exactly when the term is empty or name
\* contains it ignoring case; filterItems returns exactly the matching items
\* in their order, and filtering its result again changes nothing; after
\* clearSearch every item matches; setSearchTerm stores the trimmed term;
\* setSearchTerm and clearSearch each fire the change event once.
C29_SearchFiltering ==
    /\ \A name \in SearchNames :
          matchesSearch(search.searchTerm, name)
              <=> (search.searchTerm = <<>> \/ ContainsIgnoringCase(name, search.searchTerm))
    /\ search.op = "filterItems" =>
          /\ IsSelection(search.filtered, search.items,
                         MatchingPositions(search.items, search.searchTerm))
          /\ filterItems(search.searchTerm, search.filtered) = search.filtered
    /\ search.op = "clearSearch" =>
          /\ \A i \in 1..Len(search.items) : matchesSearch(search.searchTerm, search.items[i])
          /\ Len(search.fired) = 1
    /\ search.op = "setSearchTerm" =>
          /\ Len(search.fired) = 1
          /\ search.fired[1] = search.searchTerm
          /\ IsTrimOf(search.searchTerm, search.arg.s)

\* With the term "r" the items "o" and "R" were filtered to "R".
C29_Witness ==
    /\ search.op = "filterItems"
    /\ search.searchTerm = <<"r">>
    /\ search.items = <<<<"o">>, <<"R">>>>
    /\ search.filtered = <<<<"R">>>>

----------------------------------------------------------------------------
(* noteGenerator.ts: extractSlashCommands and generateNoteContent *)

MaxNoteLines == 2
MaxCells == 2

\* The backtick character (U+0060) of a README or a note.
BT == "backtick"

\* The text of a cell that holds the slash command n of a plugin.
CommandCell(pluginName, n) == <<BT, "/">> \o pluginName \o <<":">> \o n \o <<BT>>

\* The cells a README line of the model is made of: a command of plugin p
\* without and with blanks around it, a command of plugin q, and text.
NoteCells ==
    {CommandCell(<<"p">>, <<"a">>),
     <<" ">> \o CommandCell(<<"p">>, <<"b", "c">>) \o <<" ">>,
     CommandCell(<<"q">>, <<"a">>),
     <<" ", "x", " ">>}
PluginNames == {<<"p">>, <<"q">>}

\* A line of a README: cells separated by "|", with or without a "|" before
\* the first and after the last cell.
ReadmeLine(lead, cells, trail) == [lead |-> lead, cells |-> cells, trail |-> trail]
ReadmeLines ==
    {ReadmeLine(lead, cells, trail) :
        lead \in BOOLEAN, trail \in BOOLEAN,
        cells \in UNION {[1..n -> NoteCells] : n \in 0..MaxCells}}
Readmes == UNION {[1..n -> ReadmeLines] : n \in 1..MaxNoteLines}

\* The characters of a line.
RECURSIVE JoinCells(_)
JoinCells(cells) ==
    IF cells = <<>> THEN <<>>
    ELSE IF Len(cells) = 1 THEN cells[1]
    ELSE cells[1] \o <<"|">> \o JoinCells(Tail(cells))
LineText(line) ==
    (IF line.lead THEN <<"|">> ELSE <<>>) \o JoinCells(line.cells)
        \o (IF line.trail THEN <<"|">> ELSE <<>>)

\* readmeContent.split at the line breaks
SplitLines(readme) == [k \in 1..Len(readme) |-> LineText(readme[k])]

\* \s* from position i: the first position at or after i that holds no
\* white space (Len + 1 when there is none).
RECURSIVE SkipSpaces(_, _)
SkipSpaces(line, i) ==
    IF i <= Len(line) /\ IsSpace(line[i]) THEN SkipSpaces(line, i + 1) ELSE i

\* A run of characters other than BT from position i: the position of the
\* first BT at or after i
\* (Len + 1 when there is none).
RECURSIVE NextBacktick(_, _)
NextBacktick(line, i) ==
    IF i <= Len(line) /\ line[i] # BT THEN NextBacktick(line, i + 1) ELSE i

NoMatch == [found |-> FALSE, cmd |-> <<>>, lastIndex |-> 0]

\* commandPattern matched with its first character at position i:
\* "|", white space, BT, "/", the plugin name (escapeRegExp makes it match
\* literally), ":", one or more characters other than BT (the group), BT,
\* white space, "|".  lastIndex is the position after the match.
MatchAt(line, i, pluginName) ==
    LET open == <<BT, "/">> \o pluginName \o <<":">>
        j == SkipSpaces(line, i + 1)
        k == j + Len(open)
        b == NextBacktick(line, k)
        e == SkipSpaces(line, b + 1)
    IN IF /\ i <= Len(line) /\ line[i] = "|"
          /\ k - 1 <= Len(line) /\ SubSeq(line, j, k - 1) = open
          /\ b <= Len(line) /\ b > k
          /\ e <= Len(line) /\ line[e] = "|"
       THEN [found |-> TRUE, cmd |-> SubSeq(line, k, b - 1), lastIndex |-> e + 1]
       ELSE NoMatch

\* while ((match = commandPattern.exec(line)) !== null) with the g flag:
\* the leftmost match at or after lastIndex, then on from its end.
RECURSIVE ExecAll(_, _, _)
ExecAll(line, from, pluginName) ==
    LET starts == {i \in from..Len(line) : MatchAt(line, i, pluginName).found} IN
    IF starts = {} THEN <<>>
    ELSE LET i == CHOOSE x \in starts : \A y \in starts : x <= y
             m == MatchAt(line, i, pluginName)
         IN <<m.cmd>> \o ExecAll(line, m.lastIndex, pluginName)

\* extractSlashCommands on the lines of a README
RECURSIVE extractSlashCommands(_, _)
extractSlashCommands(lines, pluginName) ==
    IF lines = <<>> THEN <<>>
    ELSE ExecAll(Head(lines), 1, pluginName)
            \o extractSlashCommands(Tail(lines), pluginName)

\* PLACEHOLDER and the inline template, as lines; the words of the template
\* are single tokens.  The template ends with a line break, so its last
\* line is empty.
PLACEHOLDER == <<"|", " ", "/", "SLASH-COMMAND-NOTE", " ", "|">>
InlineTemplate ==
    <<<<"# NOTE">>, <<>>, <<"Plugin slash commands are mapped as:">>, <<>>,
      <<"| Command |">>, <<"|---------|">>, PLACEHOLDER, <<>>>>
NoneRow == <<"|", " ", "(none)", " ", "|">>
CommandRow(cmd) == <<"|", " ", BT, "/">> \o cmd \o <<BT, " ", "|">>

\* template.replace(line, rows) for a template that holds the line: its
\* first occurrence is replaced by the rows.
ReplaceLine(template, line, rows) ==
    LET at == {k \in 1..Len(template) : template[k] = line} IN
    IF at = {} THEN template
    ELSE LET k == CHOOSE x \in at : \A y \in at : x <= y
         IN SubSeq(template, 1, k - 1) \o rows \o SubSeq(template, k + 1, Len(template))

\* generateNoteContent with the inline template
generateNoteContent(lines, pluginName) ==
    LET commands == extractSlashCommands(lines, pluginName) IN
    IF Len(commands) = 0
    THEN ReplaceLine(InlineTemplate, PLACEHOLDER, <<NoneRow>>)
    ELSE ReplaceLine(InlineTemplate, PLACEHOLDER,
                     [k \in 1..Len(commands) |-> CommandRow(commands[k])])

NoNote ==
    [op |-> "off", readme |-> <<>>, pluginName |-> <<>>, commands |-> <<>>,
     content |-> <<>>]

NoteInit ==
    \E readme \in Readmes, pluginName \in PluginNames :
        note = [NoNote EXCEPT !.op = "none", !.readme = readme,
                              !.pluginName = pluginName]

NoteOff == note = NoNote

ExtractSlashCommands ==
    /\ note.op # "off"
    /\ note' = [note EXCEPT
                   !.op = "extractSlashCommands",
                   !.commands = extractSlashCommands(SplitLines(note.readme),
                                                     note.pluginName),
                   !.content = <<>>]
    /\ UNCHANGED notNoteVars

GenerateNoteContent ==
    /\ note.op # "off"
    /\ note' = [note EXCEPT
                   !.op = "generateNoteContent",
                   !.commands = <<>>,
                   !.content = generateNoteContent(SplitLines(note.readme),
                                                   note.pluginName)]
    /\ UNCHANGED notNoteVars

NextNote == ExtractSlashCommands \/ GenerateNoteContent

\* The cells of a line that have a "|" on both sides.
TableCells(line) ==
    LET n == Len(line.cells)
        inside == {k \in 1..n : (k > 1 \/ line.lead) /\ (k < n \/ line.trail)}
    IN SelectSeq([k \in 1..n |-> [cell |-> line.cells[k], in |-> k \in inside]],
                 LAMBDA c : c.in)

\* The name n when the cell has the form BT /{pluginName}:{n} BT, <<>>
\* otherwise.
CellCommand(cell, pluginName) ==
    LET t == Trim(cell)
        open == <<BT, "/">> \o pluginName \o <<":">>
    IN IF /\ Len(t) > Len(open) + 1
          /\ SubSeq(t, 1, Len(open)) = open
          /\ t[Len(t)] = BT
          /\ \A k \in (Len(open) + 1)..(Len(t) - 1) : t[k] # BT
       THEN SubSeq(t, Len(open) + 1, Len(t) - 1)
       ELSE <<>>

RECURSIVE CommandsOfCells(_, _)
CommandsOfCells(cells, pluginName) ==
    IF cells = <<>> THEN <<>>
    ELSE (IF CellCommand(Head(cells).cell, pluginName) # <<>>
          THEN <<CellCommand(Head(cells).cell, pluginName)>> ELSE <<>>)
         \o CommandsOfCells(Tail(cells), pluginName)

\* The names of the table cells of the form BT /{pluginName}:{n} BT, in
\* README order.
RECURSIVE CommandsOfReadme(_, _)
CommandsOfReadme(readme, pluginName) ==
    IF readme = <<>> THEN <<>>
    ELSE CommandsOfCells(TableCells(Head(readme)), pluginName)
            \o CommandsOfReadme(Tail(readme), pluginName)

\* The rows of a note: what follows the header of its table.
NoteRows(content) == SubSeq(content, 7, Len(content) - 1)

\* C30: extractSlashCommands returns, in README order, exactly the names of
\* the table cells of the form /{pluginName}:{n} between backticks;
\* generateNoteContent puts out one row /{n} per name, or the row (none),
\* and its output holds
\* neither the placeholder nor the prefix {pluginName}:.
C30_CommandsAndNote ==
    LET expected == CommandsOfReadme(note.readme, note.pluginName) IN
    /\ note.op = "extractSlashCommands" => note.commands = expected
    /\ note.op = "generateNoteContent" =>
          /\ NoteRows(note.content) =
                IF expected = <<>> THEN <<NoneRow>>
                ELSE [k \in 1..Len(expected) |-> CommandRow(expected[k])]
          /\ \A k \in 1..Len(note.content) :
                /\ note.content[k] # PLACEHOLDER
                /\ ~Includes(note.content[k], note.pluginName \o <<":">>)

----------------------------------------------------------------------------
(* githubService.ts: getDirectoryContents over one remote tree *)

\* An entry of a contents listing; repo is what getDirectoryContents adds.
DirEntry(path, type) == [path |-> path, type |-> type, repo |-> "none"]
SkillRoot == <<"s">>
\* The entries a remote tree of the model may have, in the order in which
\* a listing returns them.
RemoteEntries ==
    <<DirEntry(<<"s", "a">>, "dir"), DirEntry(<<"s", "b">>, "dir"),
      DirEntry(<<"s", "f">>, "file"), DirEntry(<<"s", "a", "c">>, "dir"),
      DirEntry(<<"s", "a", "g">>, "file"), DirEntry(<<"s", "a", "c", "h">>, "file"),
      DirEntry(<<"s", "b", "k">>, "file")>>
EntrySet == {RemoteEntries[k] : k \in 1..Len(RemoteEntries)}
ParentPath(path) == SubSeq(path, 1, Len(path) - 1)
\* A remote tree: every entry lies in the root or in a directory of the tree.
RemoteTrees ==
    {t \in SUBSET EntrySet :
        \A e \in t : \/ ParentPath(e.path) = SkillRoot
                     \/ \E d \in t : d.type = "dir" /\ d.path = ParentPath(e.path)}
ListedDirs == {SkillRoot} \cup {e.path : e \in {x \in EntrySet : x.type = "dir"}}

\* response.data of the listing request for directory p
Listing(tree, p) ==
    SelectSeq(RemoteEntries, LAMBDA e : e \in tree /\ ParentPath(e.path) = p)
\* contents.push({ ...item, repo }) for every item
TagWithRepo(items) == [k \in 1..Len(items) |-> [items[k] EXCEPT !.repo = "repo"]]
\* items.filter(item => item.type === 'gdc')
Subdirs(items) == SelectSeq(items, LAMBDA e : e.type = "dir")

\* One call of getDirectoryContents: not made, waiting for its listing,
\* waiting for Promise.all of its sub-calls, resolved with contents, or
\* rejected.
DirCall(st, contents) == [st |-> st, contents |-> contents]
NoDirCall == DirCall("none", <<>>)

PromiseAll_AllSettled(subs) ==
    IF \A k \in 1..Len(subs) : subs[k].st \in {"resolved", "rejected"}
    THEN "resolved" ELSE "pending"

\* Promise.all(subContentPromises): rejected as soon as one promise is,
\* resolved when all are.
PromiseAll(subs) ==
    IF \E k \in 1..Len(subs) : subs[k].st = "rejected" THEN "rejected"
    ELSE IF \A k \in 1..Len(subs) : subs[k].st = "resolved" THEN "resolved"
    ELSE "pending"

\* for (const subContents of subContentsArrays) contents.push(...subContents)
RECURSIVE PushAll(_, _)
PushAll(contents, subs) ==
    IF subs = <<>> THEN contents
    ELSE PushAll(contents \o Head(subs).contents, Tail(subs))

NoDir == [tree |-> {}, top |-> <<>>, calls |-> [d \in ListedDirs |-> NoDirCall],
          requests |-> [d \in ListedDirs |-> 0]]
DirInit == \E tree \in RemoteTrees : gdc = [NoDir EXCEPT !.tree = tree]
DirOff == gdc = NoDir

\* A caller (a skill download) asks for the contents of directory p.
GetDirectoryContents ==
    \E p \in ListedDirs :
        /\ gdc.top = <<>>
        /\ p = SkillRoot \/ \E e \in gdc.tree : e.type = "dir" /\ e.path = p
        /\ gdc' = [gdc EXCEPT !.top = p,
                              !.calls[p] = DirCall("pending", <<>>),
                              !.requests[p] = @ + 1]
        /\ UNCHANGED notDirVars

\* axios.get of the call for p fails (HTTP error, timeout): the catch block
\* rethrows and the call is rejected.
ListingFails ==
    \E p \in ListedDirs :
        /\ gdc.calls[p].st = "pending"
        /\ gdc' = [gdc EXCEPT !.calls[p] = DirCall("rejected", <<>>)]
        /\ UNCHANGED notDirVars

\* axios.get of the call for p answers: the items are pushed with the repo,
\* and one sub-call per directory among them is started (each sends its
\* request); without directories the call returns its contents.
ListingArrives ==
    \E p \in ListedDirs :
        /\ gdc.calls[p].st = "pending"
        /\ LET items == Listing(gdc.tree, p)
               contents == TagWithRepo(items)
               subdirs == {Subdirs(items)[k].path : k \in 1..Len(Subdirs(items))}
           IN gdc' = [gdc EXCEPT
                  !.calls = [d \in ListedDirs |->
                      IF d = p
                      THEN DirCall(IF subdirs = {} THEN "resolved" ELSE "waiting", contents)
                      ELSE IF d \in subdirs THEN DirCall("pending", <<>>)
                      ELSE @[d]],
                  !.requests = [d \in ListedDirs |->
                      IF d \in subdirs THEN @[d] + 1 ELSE @[d]]]
        /\ UNCHANGED notDirVars

\* await Promise.all(...) of the call for p settles: the call throws, or it
\* pushes the contents of its sub-calls in their order and returns.
SubListingsSettle ==
    \E p \in ListedDirs :
        /\ gdc.calls[p].st = "waiting"
        /\ LET subdirs == Subdirs(Listing(gdc.tree, p))
               subs == [k \in 1..Len(subdirs) |-> gdc.calls[subdirs[k].path]]
           IN /\ PromiseAll(subs) # "pending"
              /\ gdc' = [gdc EXCEPT !.calls[p] =
                    IF PromiseAll(subs) = "rejected" THEN DirCall("rejected", <<>>)
                    ELSE DirCall("resolved", PushAll(@.contents, subs))]
        /\ UNCHANGED notDirVars

NextDir == GetDirectoryContents \/ ListingFails \/ ListingArrives \/ SubListingsSettle

\* The entries of the tree below directory p, and the directories listed for
\* them.
IsBelow(path, p) == Len(path) > Len(p) /\ SubSeq(path, 1, Len(p)) = p
Subtree(tree, p) == {e \in tree : IsBelow(e.path, p)}
SubtreeDirs(tree, p) == {p} \cup {e.path : e \in {x \in Subtree(tree, p) : x.type = "dir"}}
TopCall == gdc.calls[gdc.top]
DirSettled == gdc.top # <<>> /\ TopCall.st \in {"resolved", "rejected"}

C32_Listing ==
    /\ \A d \in ListedDirs : gdc.requests[d] <= 1
    /\ gdc.top # <<>> =>
        LET under == Subtree(gdc.tree, gdc.top)
            got == TopCall.contents
        IN /\ TopCall.st = "resolved" =>
                /\ \A k \in 1..Len(got) : got[k].repo = "repo"
                /\ {[got[k] EXCEPT !.repo = "none"] : k \in 1..Len(got)} = under
                /\ Len(got) = Cardinality(under)
                /\ \A d \in ListedDirs :
                      gdc.requests[d] = IF d \in SubtreeDirs(gdc.tree, gdc.top) THEN 1 ELSE 0
           /\ (\E d \in ListedDirs : gdc.calls[d].st = "rejected") =>
                /\ TopCall.st # "resolved"
                /\ DirSettled => TopCall = DirCall("rejected", <<>>)

\* C32: a call of getDirectoryContents on a directory of a finite remote
\* tree settles; when it returns, its result holds every entry below the
\* directory exactly once, each with the repo, and exactly one listing
\* request was sent for each directory of the subtree (and none for any
\* other); when a listing of the subtree has failed, the call does not
\* return a listing, it fails.
C32_RecursiveListing == []C32_Listing /\ <>DirSettled

\* The whole tree of seven entries, three levels deep, has been listed from
\* its root.
C32_Witness ==
    /\ gdc.top = SkillRoot
    /\ gdc.tree = EntrySet
    /\ TopCall.st = "resolved"
    /\ Len(TopCall.contents) = 7

----------------------------------------------------------------------------
(* extension.ts: the stored repository sources *)

\* Sources the repositories setting can list: o/a on github.com, o/a on an
\* enterprise host, and o/b on github.com.
SourceRepos ==
    {RepoSource(<<"o">>, <<"a">>, <<>>, FALSE, EmptyMapping),
     RepoSource(<<"o">>, <<"a">>, <<"h">>, FALSE, EmptyMapping),
     RepoSource(<<"o">>, <<"b">>, <<>>, FALSE, EmptyMapping)}

\* RepoStorage.getDefaultSources(): the default repository.
getDefaultSources ==
    <<RepoSource(<<"g">>, <<"d">>, <<>>, FALSE, EmptyMapping)>>

\* RepoStorage.getSources(context) and RepoStorage.setSources(context, s):
\* the stored list is read and replaced as a whole.
getSources(st) == st.stored
setSources(st, s) == [st EXCEPT !.stored = s]

\* `${s.owner}/${s.repo}`
SourceLabel(s) == s.owner \o <<"/">> \o s.repo

\* The non-empty lists over SourceRepos that name no source twice.
StoredLists ==
    {l \in UNION {[1..n -> SourceRepos] : n \in 1..Cardinality(SourceRepos)} :
        \A i, j \in DOMAIN l : l[i] = l[j] => i = j}

NoSource == [owner |-> <<>>]
NoSources ==
    [stored |-> <<>>, menu |-> "off", sources |-> <<>>, adding |-> NoSource,
     cleared |-> "none", refreshed |-> FALSE]
SourcesInit ==
    \E l \in StoredLists :
        repoList = [NoSources EXCEPT !.stored = l, !.menu = "closed"]
SourcesOff == repoList = NoSources

\* The command manageSources starts: its local `sources` is read once.
ManageSources ==
    /\ repoList.menu = "closed"
    /\ repoList' = [repoList EXCEPT !.menu = "open",
                                    !.sources = getSources(repoList),
                                    !.cleared = "none", !.refreshed = FALSE]
    /\ UNCHANGED notSourcesVars

\* The menu is dismissed, or Done is picked.
MenuDone ==
    /\ repoList.menu = "open"
    /\ repoList' = [repoList EXCEPT !.menu = "closed", !.sources = <<>>,
                                    !.cleared = "none", !.refreshed = FALSE]
    /\ UNCHANGED notSourcesVars

\* Add Repository up to the duplicate check; a new name goes on to the
\* validation of the repository's structure.
AddRepository ==
    /\ repoList.menu = "open"
    /\ \E r \in SourceRepos :
        LET duplicate ==
                \E i \in DOMAIN repoList.sources :
                    /\ repoList.sources[i].owner = r.owner
                    /\ repoList.sources[i].repo = r.repo
        IN  repoList' =
                IF duplicate
                THEN [repoList EXCEPT !.cleared = "none", !.refreshed = FALSE]
                ELSE [repoList EXCEPT !.menu = "validating", !.adding = r,
                                      !.cleared = "none", !.refreshed = FALSE]
    /\ UNCHANGED notSourcesVars

\* The validation ends: a content folder was found ("found"), folder
\* mappings were configured ("mapped"), the offer was declined
\* ("declined"), or a request failed ("error").
AddValidated ==
    /\ repoList.menu = "validating"
    /\ \E outcome \in {"found", "mapped", "declined", "error"} :
        IF outcome \in {"found", "mapped"}
        THEN LET sources == Append(repoList.sources, repoList.adding)
             IN  repoList' =
                     [setSources(repoList, sources)
                         EXCEPT !.menu = "open", !.sources = sources,
                                !.adding = NoSource,
                                !.refreshed = (outcome = "mapped")]
        ELSE repoList' = [repoList EXCEPT !.menu = "open", !.adding = NoSource]
    /\ UNCHANGED notSourcesVars

\* Remove Repository: pick 0 dismisses the list of sources.
RemoveRepository ==
    /\ repoList.menu = "open"
    /\ IF Len(repoList.sources) = 1
       THEN repoList' = [repoList EXCEPT !.cleared = "none", !.refreshed = FALSE]
       ELSE \E pick \in 0..Len(repoList.sources) :
            IF pick = 0
            THEN repoList' =
                     [repoList EXCEPT !.cleared = "none", !.refreshed = FALSE]
            ELSE LET toRemove == repoList.sources[pick]
                     Keep(s) == SourceLabel(s) # SourceLabel(toRemove)
                     sources == SelectSeq(repoList.sources, Keep)
                 IN  repoList' =
                         [setSources(repoList, sources)
                             EXCEPT !.sources = sources,
                                    !.cleared = SourceLabel(toRemove),
                                    !.refreshed = TRUE]
    /\ UNCHANGED notSourcesVars

\* Reset to Default
ResetToDefault ==
    /\ repoList.menu = "open"
    /\ repoList' =
           [setSources(repoList, getDefaultSources)
               EXCEPT !.sources = getDefaultSources,
                      !.cleared = "all", !.refreshed = TRUE]
    /\ UNCHANGED notSourcesVars

\* The command removeRepo on a repository of the tree, while no menu list
\* is shown: the dialog is confirmed or dismissed.
RemoveRepo ==
    /\ repoList.menu \in {"closed", "validating"}
    /\ \E i \in DOMAIN repoList.stored, confirm \in BOOLEAN :
        LET repo == repoList.stored[i]
            stored == getSources(repoList)
            Keep(s) == ~(s.owner = repo.owner /\ s.repo = repo.repo)
        IN  IF confirm /\ Len(stored) > 1
            THEN repoList' =
                     [setSources(repoList, SelectSeq(stored, Keep))
                         EXCEPT !.cleared = SourceLabel(repo),
                                !.refreshed = TRUE]
            ELSE repoList' =
                     [repoList EXCEPT !.cleared = "none", !.refreshed = FALSE]
    /\ UNCHANGED notSourcesVars

NextSources ==
    \/ ManageSources
    \/ MenuDone
    \/ AddRepository
    \/ AddValidated
    \/ RemoveRepository
    \/ ResetToDefault
    \/ RemoveRepo

\* C37: after any sequence of Add Repository, Remove Repository, Reset to
\* Default and removeRepo from a non-empty list, at least one repository
\* source remains stored.
C37_NeverEmpty == repoList.stored # <<>>

----------------------------------------------------------------------------
(* githubService.ts: clearCache, clearRepoCache and clearCategoryCache on *)
(* a cache filled by getFilesByRepo                                       *)

\* Repositories whose keys are near one another: o/a on github.com, o/a on
\* an enterprise host, and o/ab on github.com.
ClearRepos ==
    {RepoSource(<<"o">>, <<"a">>, <<>>, FALSE, EmptyMapping),
     RepoSource(<<"o">>, <<"a">>, <<"h">>, FALSE, EmptyMapping),
     RepoSource(<<"o">>, <<"a", "b">>, <<>>, FALSE, EmptyMapping)}
ClearCategories == {"prompts", "skills"}

Invalidation(op, repo, category, before) ==
    [op |-> op, repo |-> repo, category |-> category, before |-> before]
NoInvalidation == Invalidation("none", <<>>, "none", <<>>)
ClearInit == clr = NoInvalidation
ClearOff == clr = NoInvalidation

\* A getFilesByRepo that went to the remote and got its listing:
\* this.cache.set(cacheKey, { data: files, timestamp: now, category, repo })
StoreListing ==
    \E repo \in ClearRepos, category \in ClearCategories :
        /\ cache' = CacheSet(cache, CacheKey(repo, category),
                             [data |-> <<>>, timestamp |-> clock,
                              category |-> category, repo |-> repo])
        /\ clr' = NoInvalidation
        /\ UNCHANGED notClearVars

ClearAll ==
    /\ cache' = clearCache(cache)
    /\ clr' = Invalidation("clearCache", <<>>, "none", cache)
    /\ UNCHANGED notClearVars

ClearRepo ==
    \E repo \in ClearRepos :
        /\ cache' = clearRepoCache(cache, repo)
        /\ clr' = Invalidation("clearRepoCache", repo, "none", cache)
        /\ UNCHANGED notClearVars

ClearCategory ==
    \E repo \in ClearRepos, category \in ClearCategories :
        /\ cache' = clearCategoryCache(cache, repo, category)
        /\ clr' = Invalidation("clearCategoryCache", repo, category, cache)
        /\ UNCHANGED notClearVars

NextClear == StoreListing \/ ClearAll \/ ClearRepo \/ ClearCategory

\* The identity of a repository: host (baseUrl or the default), owner, repo.
Identity(repo) ==
    <<IF repo.baseUrl = <<>> THEN GithubCom ELSE repo.baseUrl, repo.owner, repo.repo>>
\* The cache holds for repository r and category c what it held before.
Kept(r, c) ==
    /\ CacheKey(r, c) \in DOMAIN cache <=> CacheKey(r, c) \in DOMAIN clr.before
    /\ CacheKey(r, c) \in DOMAIN cache => cache[CacheKey(r, c)] = clr.before[CacheKey(r, c)]
Removed(r, c) == CacheKey(r, c) \notin DOMAIN cache

\* C33: clearCategoryCache(repo, c) removes the entry of repo and c and
\* leaves the entry of every other repository or category as it was;
\* clearRepoCache(repo) removes the entries of the repository with that
\* identity (host, owner, repo) and leaves those of every other identity as
\* they were, the same owner/repo on another host included; clearCache
\* leaves the cache empty; and none of them adds a key.
C33_ClearFrames ==
    /\ clr.op # "none" => DOMAIN cache \subseteq DOMAIN clr.before
    /\ clr.op = "clearCache" => cache = <<>>
    /\ clr.op = "clearRepoCache" =>
          \A r \in ClearRepos, c \in ClearCategories :
              IF Identity(r) = Identity(clr.repo) THEN Removed(r, c) ELSE Kept(r, c)
    /\ clr.op = "clearCategoryCache" =>
          \A r \in ClearRepos, c \in ClearCategories :
              IF Identity(r) = Identity(clr.repo) /\ c = clr.category
              THEN Removed(r, c) ELSE Kept(r, c)

\* clearRepoCache for o/a on github.com removed its two entries from a cache
\* that also held entries of o/a on the enterprise host and of o/ab, which
\* are still there.
C33_Witness ==
    /\ clr.op = "clearRepoCache"
    /\ clr.repo = RepoSource(<<"o">>, <<"a">>, <<>>, FALSE, EmptyMapping)
    /\ Cardinality(DOMAIN clr.before) = 6
    /\ Cardinality(DOMAIN cache) = 4

----------------------------------------------------------------------------
(* treeProvider.ts and githubService.ts: whose items a key holds *)

\* What the tree shows under category c of source r: repoData.get(category)
\* of the map kept for the key of r.
ShownFor(r, c) ==
    IF TreeRepoKey(r) \in DOMAIN repoItems /\ c \in DOMAIN repoItems[TreeRepoKey(r)]
    THEN repoItems[TreeRepoKey(r)][c] ELSE <<>>

\* C34: two sources with the same owner/repo and different baseUrl are kept
\* apart: every item the tree provider holds for a source was loaded from
\* that source (same host, owner and repo), and every file of a cache entry
\* of the service was loaded from the repository of the entry's key.
C34_HostInIdentity ==
    /\ \A r \in TreeRepos, k \in 1..Len(TreeCategories) :
          LET shown == ShownFor(r, TreeCategories[k]) IN
          \A j \in 1..Len(shown) : Identity(shown[j].repo) = Identity(r)
    /\ \A key \in DOMAIN cache :
          \A j \in 1..Len(cache[key].data) :
              CacheKey(cache[key].data[j].repo, cache[key].category) = key

----------------------------------------------------------------------------
(* The components that take no step in a specification *)


PureOff == ManifestOff /\ BranchOff /\ SearchOff /\ NoteOff /\ DirOff /\ SourcesOff /\ ClearOff

----------------------------------------------------------------------------
(* Specifications *)

InitResolve ==
    ResolveInit /\ PanelInit /\ TlsOff /\ CacheInit /\ TreeInit /\ AuthOff /\ DownloadOff
    /\ PureOff
SpecResolve == InitResolve /\ [][NextResolve]_vars

InitPanel ==
    PanelInit /\ ResolveOff /\ TlsOff /\ CacheInit /\ TreeInit /\ AuthOff /\ DownloadOff
    /\ PureOff
SpecPanel == InitPanel /\ [][NextPanel]_vars

InitTls ==
    TlsInit /\ ResolveOff /\ PanelInit /\ CacheInit /\ TreeInit /\ AuthOff /\ DownloadOff
    /\ PureOff
SpecTls == InitTls /\ [][NextTls]_vars

InitCache ==
    CacheInit /\ ResolveOff /\ PanelInit /\ TlsOff /\ TreeInit /\ AuthOff /\ DownloadOff
    /\ PureOff
SpecCache == InitCache /\ [][NextCache]_vars

InitTree ==
    TreeInit /\ CacheInit /\ ResolveOff /\ PanelInit /\ TlsOff /\ AuthOff /\ DownloadOff
    /\ PureOff
SpecTree == InitTree /\ [][NextTree]_vars

InitAuth ==
    AuthInit /\ ResolveOff /\ PanelInit /\ TlsOff /\ CacheInit /\ TreeInit /\ DownloadOff
    /\ PureOff
SpecAuth == InitAuth /\ [][NextAuth]_vars

InitDownload ==
    DownloadInit /\ ResolveOff /\ PanelInit /\ TlsOff /\ CacheInit /\ TreeInit /\ AuthOff
    /\ PureOff
SpecDownload == InitDownload /\ [][NextDownload]_vars

ServiceOff ==
    ResolveOff /\ PanelInit /\ TlsOff /\ CacheInit /\ TreeInit /\ AuthOff /\ DownloadOff

InitManifest ==
    ManifestInit /\ BranchOff /\ SearchOff /\ NoteOff /\ DirOff /\ SourcesOff /\ ClearOff /\ ServiceOff
SpecManifest == InitManifest /\ [][NextManifest]_vars

InitBranch ==
    BranchInit /\ ManifestOff /\ SearchOff /\ NoteOff /\ DirOff /\ SourcesOff /\ ClearOff /\ ServiceOff
SpecBranch == InitBranch /\ [][NextBranch]_vars

InitSearch ==
    SearchInit /\ ManifestOff /\ BranchOff /\ NoteOff /\ DirOff /\ SourcesOff /\ ClearOff /\ ServiceOff
SpecSearch == InitSearch /\ [][NextSearch]_vars

InitNote ==
    NoteInit /\ ManifestOff /\ BranchOff /\ SearchOff /\ DirOff /\ SourcesOff /\ ClearOff /\ ServiceOff
SpecNote == InitNote /\ [][NextNote]_vars

InitDir ==
    DirInit /\ ManifestOff /\ BranchOff /\ SearchOff /\ NoteOff /\ SourcesOff /\ ClearOff /\ ServiceOff
SpecDir == InitDir /\ [][NextDir]_vars
\* Every request is answered or times out (axios timeout: 10000), and a
\* promise whose sub-promises have settled settles.
SpecDirLive == SpecDir /\ WF_vars(NextDir)

InitSources ==
    SourcesInit /\ ManifestOff /\ BranchOff /\ SearchOff /\ NoteOff /\ DirOff /\ ClearOff /\ ServiceOff
SpecSources == InitSources /\ [][NextSources]_vars

InitClear ==
    ClearInit /\ ManifestOff /\ BranchOff /\ SearchOff /\ NoteOff /\ DirOff /\ SourcesOff /\ ServiceOff
SpecClear == InitClear /\ [][NextClear]_vars

====
